---------------------------- MODULE Spec2Model ----------------------------
(***************************************************************************)
(* Variant chromosomes of jackalope: a reference chromosome plus an        *)
(* ordered log of mutations (struct AllMutations, class VarChrom in        *)
(* src/src/var_classes.h).                                                 *)
(*                                                                         *)
(* AllMutations (four parallel deques and the operations on them) is       *)
(* translated from var_classes.h.  The bodies of the VarChrom methods are  *)
(* only declared in var_classes.h; they are written here after sections    *)
(* 3 and 4.4 of the specification, under the names the header declares.    *)
(*                                                                         *)
(* Positions and log indices are 0-based as in the source; TLA+ sequences  *)
(* are 1-based, so element i of a deque d is d[i + 1].                     *)
(***************************************************************************)
EXTENDS Integers, Sequences, FiniteSets, TLC

VARIABLES
    ref_chrom,    \* VarChrom::ref_chrom -> nucleos, the reference bases
    mutations,    \* VarChrom::mutations, an AllMutations
    chrom_size,   \* VarChrom::chrom_size
    plain,        \* a plain string that receives the same edits directly
    last,         \* the last edit applied: its kind and arguments
    prev,         \* mutations and chrom_size as they were before the last edit
    n_edits,      \* number of edits applied so far
    location,     \* MutationSampler::location and the driver's running total
    wr,           \* one run of weighted_reservoir_
    cs,           \* one run of create_sequences_ / create_genome
    ms,           \* one construction of a MutationSampler
    logs          \* AllMutations objects and the buffers of their `nucleos`

vars == <<ref_chrom, mutations, chrom_size, plain, last, prev, n_edits,
          location, wr, cs, ms, logs>>

\* the variables of the samplers and of the sequence generator
sampler_vars == <<location, wr, cs, ms, logs>>

\* the variables of one VarChrom and its driver
chrom_vars == <<ref_chrom, mutations, chrom_size, plain, last, prev, n_edits>>

---------------------------------------------------------------------------
(* Bounds of the model *)

MaxEdits == 3     \* edits applied to one chromosome
MaxChunkEdits == 2    \* edits applied before chunks are read
MaxInsLen == 2    \* longest inserted string
MaxDelLen == 3    \* longest deletion

\* reference chromosomes the model starts from
RefChroms == { <<"T", "C", "A", "G", "T">>, <<"C", "A">> }

\* strings add_insertion is called with
InsertPool == { <<"G">>, <<"A", "C">>, <<"C", "T", "A">>, <<"G", "A", "T", "C">> }
Insertions == { s \in InsertPool : Len(s) <= MaxInsLen }

\* bases add_substitution is called with
SubNucleos == { "G" }

---------------------------------------------------------------------------
(* Plain helpers *)

Min(a, b) == IF a < b THEN a ELSE b
Max(a, b) == IF a > b THEN a ELSE b

\* s[i] of the source (0-based); a read outside the buffer yields the
\* junk byte "?"
At(s, i) == IF i + 1 \in DOMAIN s THEN s[i + 1] ELSE "?"

\* std::string::substr(pos, n), 0-based
SubStr(s, pos, n) == SubSeq(s, pos + 1, Min(pos + n, Len(s)))

\* deque.insert(begin() + ind, x)
DequeInsert(d, ind, x) == SubSeq(d, 1, ind) \o <<x>> \o SubSeq(d, ind + 1, Len(d))

\* deque.erase(begin() + ind1, begin() + ind2): removes [ind1, ind2)
DequeErase(d, ind1, ind2) == SubSeq(d, 1, ind1) \o SubSeq(d, ind2 + 1, Len(d))

\* the elements of a sequence
Range(s) == { s[j] : j \in DOMAIN s }

\* d with every element from index `from` on (0-based) increased by x
AddFrom(d, from, x) == [j \in DOMAIN d |-> IF j - 1 >= from THEN d[j] + x ELSE d[j]]

---------------------------------------------------------------------------
(* struct AllMutations *)

\* the null pointer stored in `nucleos` for a deletion
nullptr == <<>>

\* AllMutations(): four empty deques
AllMutations ==
    [size_modifier |-> <<>>, old_pos |-> <<>>, new_pos |-> <<>>, nucleos |-> <<>>]

size(m) == Len(m.old_pos)

empty(m) == Len(m.old_pos) = 0

\* copies the bytes of nts into a fresh buffer; a null nts leaves the slot null
fill_one_nucleos__(nts) == IF nts = nullptr THEN nullptr ELSE [j \in 1..Len(nts) |-> nts[j]]

\* push_front that appends new_pos at the back of its deque
push_front_new_pos_back(m, sm, op, np, nts) ==
    [size_modifier |-> <<sm>> \o m.size_modifier,
     old_pos       |-> <<op>> \o m.old_pos,
     new_pos       |-> Append(m.new_pos, np),
     nucleos       |-> <<fill_one_nucleos__(nts)>> \o m.nucleos]

push_front(m, sm, op, np, nts) ==
    [size_modifier |-> <<sm>> \o m.size_modifier,
     old_pos       |-> <<op>> \o m.old_pos,
     new_pos       |-> <<np>> \o m.new_pos,
     nucleos       |-> <<fill_one_nucleos__(nts)>> \o m.nucleos]

push_back(m, sm, op, np, nts) ==
    [size_modifier |-> Append(m.size_modifier, sm),
     old_pos       |-> Append(m.old_pos, op),
     new_pos       |-> Append(m.new_pos, np),
     nucleos       |-> Append(m.nucleos, fill_one_nucleos__(nts))]

\* insert without the fill_one_nucleos__ call: the new slot stays null
insert_unfilled(m, ind, sm, op, np, nts) ==
    [size_modifier |-> DequeInsert(m.size_modifier, ind, sm),
     old_pos       |-> DequeInsert(m.old_pos, ind, op),
     new_pos       |-> DequeInsert(m.new_pos, ind, np),
     nucleos       |-> DequeInsert(m.nucleos, ind, nullptr)]

\* insert that stores op in both position deques
insert_old_pos_twice(m, ind, sm, op, np, nts) ==
    [size_modifier |-> DequeInsert(m.size_modifier, ind, sm),
     old_pos       |-> DequeInsert(m.old_pos, ind, op),
     new_pos       |-> DequeInsert(m.new_pos, ind, op),
     nucleos       |-> DequeInsert(m.nucleos, ind, fill_one_nucleos__(nts))]

insert(m, ind, sm, op, np, nts) ==
    [size_modifier |-> DequeInsert(m.size_modifier, ind, sm),
     old_pos       |-> DequeInsert(m.old_pos, ind, op),
     new_pos       |-> DequeInsert(m.new_pos, ind, np),
     nucleos       |-> DequeInsert(m.nucleos, ind, fill_one_nucleos__(nts))]

\* erase(ind) that leaves the `nucleos` deque alone
erase_keeps_nucleos(m, ind) ==
    [size_modifier |-> DequeErase(m.size_modifier, ind, ind + 1),
     old_pos       |-> DequeErase(m.old_pos, ind, ind + 1),
     new_pos       |-> DequeErase(m.new_pos, ind, ind + 1),
     nucleos       |-> m.nucleos]

\* erase(ind)
erase(m, ind) ==
    [size_modifier |-> DequeErase(m.size_modifier, ind, ind + 1),
     old_pos       |-> DequeErase(m.old_pos, ind, ind + 1),
     new_pos       |-> DequeErase(m.new_pos, ind, ind + 1),
     nucleos       |-> DequeErase(m.nucleos, ind, ind + 1)]

\* erase(ind1, ind2) that stops one record early
erase_range_short(m, ind1, ind2) ==
    [size_modifier |-> DequeErase(m.size_modifier, ind1, Max(ind1, ind2 - 1)),
     old_pos       |-> DequeErase(m.old_pos, ind1, Max(ind1, ind2 - 1)),
     new_pos       |-> DequeErase(m.new_pos, ind1, Max(ind1, ind2 - 1)),
     nucleos       |-> DequeErase(m.nucleos, ind1, Max(ind1, ind2 - 1))]

\* erase(ind1, ind2)
erase_range(m, ind1, ind2) ==
    [size_modifier |-> DequeErase(m.size_modifier, ind1, ind2),
     old_pos       |-> DequeErase(m.old_pos, ind1, ind2),
     new_pos       |-> DequeErase(m.new_pos, ind1, ind2),
     nucleos       |-> DequeErase(m.nucleos, ind1, ind2)]

\* mutations.nucleos[ind]
nucleos_at(m, ind) == IF ind + 1 \in DOMAIN m.nucleos THEN m.nucleos[ind + 1] ELSE nullptr

---------------------------------------------------------------------------
(* class VarChrom: lookups *)

\* VarChrom(ref) that leaves chrom_size out of the initialiser list
VarChrom_unsized(ref) == [mutations |-> AllMutations, chrom_size |-> 0]

\* VarChrom(const RefChrom& ref): empty log, chrom_size(ref.size())
VarChrom(ref) == [mutations |-> AllMutations, chrom_size |-> Len(ref)]

\* binary search: the first index in [lo, hi) whose new_pos is > target
RECURSIVE upper_bound_(_, _, _, _)
upper_bound_(np, lo, hi, target) ==
    IF lo >= hi THEN lo
    ELSE LET mid == (lo + hi) \div 2
         IN  IF At(np, mid) <= target
             THEN upper_bound_(np, mid + 1, hi, target)
             ELSE upper_bound_(np, lo, mid, target)

\* index of the last record with new_pos <= the position; mutations.size()
\* when no record is at or before it
get_mut_(m, new_pos_) ==
    LET ub == upper_bound_(m.new_pos, 0, size(m), new_pos_)
    IN  IF ub = 0 THEN size(m) ELSE ub - 1

\* base at variant position new_pos_, given mut = get_mut_(new_pos_)
get_char_(ref, m, new_pos_, mut) ==
    IF mut >= size(m) THEN At(ref, new_pos_)
    ELSE LET ind == new_pos_ - At(m.new_pos, mut)
             sm  == At(m.size_modifier, mut)
             op  == At(m.old_pos, mut)
         IN  IF sm = 0
             THEN IF ind = 0 THEN At(nucleos_at(m, mut), 0) ELSE At(ref, op + ind)
             ELSE IF sm > 0
             THEN IF ind < sm THEN At(nucleos_at(m, mut), ind)
                  ELSE At(ref, op + (ind - sm))
             ELSE At(ref, op - sm + ind)

\* reference position under variant position new_pos_ (the anchor of the
\* insertion when the position holds an inserted byte)
ref_pos(m, new_pos_, mut) ==
    IF mut >= size(m) THEN new_pos_
    ELSE LET ind == new_pos_ - At(m.new_pos, mut)
             sm  == At(m.size_modifier, mut)
             op  == At(m.old_pos, mut)
         IN  IF sm = 0 THEN op + ind
             ELSE IF sm > 0 THEN (IF ind < sm THEN op ELSE op + (ind - sm))
             ELSE op - sm + ind

\* number of reference bases a record covers
len_in_reference(sm) == IF sm = 0 THEN 1 ELSE IF sm > 0 THEN 0 ELSE 0 - sm

\* number of variant bases a record holds
len_in_variant(sm) == IF sm = 0 THEN 1 ELSE IF sm > 0 THEN sm ELSE 0

\* the variant from record mut_i on, the reference being consumed up to pos
RECURSIVE chrom_from_(_, _, _, _)
chrom_from_(ref, m, mut_i, pos) ==
    IF mut_i >= size(m) THEN SubStr(ref, pos, Len(ref))
    ELSE LET op == At(m.old_pos, mut_i)
             sm == At(m.size_modifier, mut_i)
         IN  SubStr(ref, pos, op - pos)
               \o nucleos_at(m, mut_i)
               \o chrom_from_(ref, m, mut_i + 1, op + len_in_reference(sm))

get_chrom_full(ref, m) == chrom_from_(ref, m, 0, 0)

\* the bytes at variant positions pos..end, walking the log forward from
\* record mut_i (mutations.size() while pos is in front of the first record)
RECURSIVE chunk_from_(_, _, _, _, _)
chunk_from_(ref, m, pos, end, mut_i) ==
    IF pos > end THEN <<>>
    ELSE LET next_mut_i == IF mut_i >= size(m) THEN 0 ELSE mut_i + 1
         IN  IF next_mut_i < size(m) /\ At(m.new_pos, next_mut_i) <= pos
             THEN chunk_from_(ref, m, pos, end, next_mut_i)
             ELSE <<get_char_(ref, m, pos, mut_i)>>
                    \o chunk_from_(ref, m, pos + 1, end, mut_i)

\* set_chrom_chunk(chunk_str, start, chunk_size, mut_i): the chunk, and the
\* log index mut_i is left at.  The index passed in is kept only when it is
\* the record start falls on; otherwise the record is searched for.
set_chrom_chunk(ref, vc, start, chunk_size, mut_i) ==
    LET m == vc.mutations
    IN  IF start >= vc.chrom_size
        THEN [chunk_str |-> <<>>, mut_i |-> size(m)]
        ELSE LET end  == Min(start + chunk_size - 1, vc.chrom_size - 1)
                 here == IF /\ mut_i < size(m)
                            /\ At(m.new_pos, mut_i) <= start
                            /\ (mut_i + 1 = size(m) \/ At(m.new_pos, mut_i + 1) > start)
                         THEN mut_i
                         ELSE get_mut_(m, start)
             IN  [chunk_str |-> chunk_from_(ref, m, start, end, here),
                  mut_i     |-> get_mut_(m, end)]

---------------------------------------------------------------------------
(* class VarChrom: edits.  vc is [mutations, chrom_size]. *)

\* calc_positions(mut_i, modifier): new_pos of the records from mut_i on, and
\* the chromosome size, move by modifier
calc_positions(vc, mut_i, modifier) ==
    [mutations  |-> [vc.mutations EXCEPT !.new_pos = AddFrom(@, mut_i, modifier)],
     chrom_size |-> vc.chrom_size + modifier]

remove_mutation_(m, mut_i) == erase(m, mut_i)

remove_mutation_range_(m, mut_i1, mut_i2) == erase_range(m, mut_i1, mut_i2)

\* bytes of nts with [from, from + n) replaced by the bytes of by
Splice(nts, from, n, by) == SubSeq(nts, 1, from) \o by \o SubSeq(nts, from + n + 1, Len(nts))

\* add_substitution that adds a record wherever the position lies
add_substitution_always_new_(vc, nucleo, new_pos_) ==
    LET m     == vc.mutations
        mut_i == get_mut_(m, new_pos_)
    IN  IF mut_i = size(m)
        THEN [vc EXCEPT !.mutations = push_front(m, 0, new_pos_, new_pos_, <<nucleo>>)]
        ELSE [vc EXCEPT !.mutations =
                 insert(m, mut_i + 1, 0, ref_pos(m, new_pos_, mut_i),
                        new_pos_, <<nucleo>>)]

add_substitution(vc, nucleo, new_pos_) ==
    LET m     == vc.mutations
        mut_i == get_mut_(m, new_pos_)
    IN  IF mut_i = size(m)
        THEN [vc EXCEPT !.mutations = push_front(m, 0, new_pos_, new_pos_, <<nucleo>>)]
        ELSE LET ind == new_pos_ - At(m.new_pos, mut_i)
                 sm  == At(m.size_modifier, mut_i)
             IN  IF (sm = 0 /\ ind = 0) \/ (sm > 0 /\ ind < sm)
                 THEN \* the slot of a substitution or an inserted byte: in place
                      [vc EXCEPT !.mutations.nucleos[mut_i + 1] =
                                     Splice(@, ind, 1, <<nucleo>>)]
                 ELSE [vc EXCEPT !.mutations =
                          insert(m, mut_i + 1, 0, ref_pos(m, new_pos_, mut_i),
                                 new_pos_, <<nucleo>>)]

add_insertion(vc, nucleos_, new_pos_) ==
    LET m     == vc.mutations
        mut_i == get_mut_(m, new_pos_)
        n     == Len(nucleos_)
        \* the inserted bytes join the bytes of insertion record i at offset off
        Join(i, off) ==
            calc_positions(
                [vc EXCEPT !.mutations.nucleos[i + 1] = Splice(@, off, 0, nucleos_),
                           !.mutations.size_modifier[i + 1] = @ + n],
                i + 1, n)
    IN  IF mut_i = size(m)
        THEN calc_positions(
                 [vc EXCEPT !.mutations = push_front(m, n, new_pos_, new_pos_, nucleos_)],
                 1, n)
        ELSE LET ind == new_pos_ - At(m.new_pos, mut_i)
                 sm  == At(m.size_modifier, mut_i)
                 op  == At(m.old_pos, mut_i)
             IN  IF sm > 0 /\ ind <= sm
                 THEN Join(mut_i, ind)
                 ELSE IF sm = 0 /\ ind = 0
                 THEN \* in front of a substitution
                      IF mut_i > 0 /\ At(m.size_modifier, mut_i - 1) > 0
                                   /\ At(m.old_pos, mut_i - 1) = op
                      THEN Join(mut_i - 1, At(m.size_modifier, mut_i - 1))
                      ELSE calc_positions(
                               [vc EXCEPT !.mutations =
                                    insert(m, mut_i, n, op, new_pos_, nucleos_)],
                               mut_i + 1, n)
                 ELSE calc_positions(
                          [vc EXCEPT !.mutations =
                               insert(m, mut_i + 1, n, ref_pos(m, new_pos_, mut_i),
                                      new_pos_, nucleos_)],
                          mut_i + 2, n)

---------------------------------------------------------------------------
(* add_deletion and the "blowup" of the records a deletion covers *)

\* binary search: the first index in [lo, hi) whose new_pos is >= target
RECURSIVE lower_bound_(_, _, _, _)
lower_bound_(np, lo, hi, target) ==
    IF lo >= hi THEN lo
    ELSE LET mid == (lo + hi) \div 2
         IN  IF At(np, mid) < target
             THEN lower_bound_(np, mid + 1, hi, target)
             ELSE lower_bound_(np, lo, mid, target)

\* merge_del_ins_ that leaves size_mod as it was given
merge_del_ins_size_mod_kept_(m, insert_i, deletion_start, deletion_end, size_mod) ==
    LET np  == At(m.new_pos, insert_i)
        len == At(m.size_modifier, insert_i)
        lo  == Max(np, deletion_start)
        hi  == Min(np + len - 1, deletion_end)
        n   == hi - lo + 1
    IN  IF n <= 0
        THEN [mutations |-> m, mut_i |-> insert_i + 1, size_mod |-> size_mod]
        ELSE IF n = len
        THEN [mutations |-> remove_mutation_(m, insert_i),
              mut_i     |-> insert_i,
              size_mod  |-> size_mod]
        ELSE [mutations |->
                 [m EXCEPT !.size_modifier[insert_i + 1] = len - n,
                           !.nucleos[insert_i + 1] = Splice(@, lo - np, n, <<>>),
                           !.new_pos[insert_i + 1] = IF np >= deletion_start
                                                     THEN np + n ELSE np],
              mut_i     |-> insert_i + 1,
              size_mod  |-> size_mod]

\* an insertion record against the deleted variant range
\* [deletion_start, deletion_end]: a wholly covered insertion is removed, a
\* partly covered one loses the covered bytes; size_mod gives up the bytes
\* that were inserted ones.  mut_i is left on the record after it.
merge_del_ins_(m, insert_i, deletion_start, deletion_end, size_mod) ==
    LET np  == At(m.new_pos, insert_i)
        len == At(m.size_modifier, insert_i)
        lo  == Max(np, deletion_start)
        hi  == Min(np + len - 1, deletion_end)
        n   == hi - lo + 1
    IN  IF n <= 0
        THEN [mutations |-> m, mut_i |-> insert_i + 1, size_mod |-> size_mod]
        ELSE IF n = len
        THEN [mutations |-> remove_mutation_(m, insert_i),
              mut_i     |-> insert_i,
              size_mod  |-> size_mod + n]
        ELSE [mutations |->
                 [m EXCEPT !.size_modifier[insert_i + 1] = len - n,
                           !.nucleos[insert_i + 1] = Splice(@, lo - np, n, <<>>),
                           \* a kept suffix now starts where the range ended
                           !.new_pos[insert_i + 1] = IF np >= deletion_start
                                                     THEN np + n ELSE np],
              mut_i     |-> insert_i + 1,
              size_mod  |-> size_mod + n]

\* the records from mut_i on that start inside the deleted range:
\* substitutions are removed, insertions merged, deletions passed over
RECURSIVE blowup_walk_(_, _, _, _, _)
blowup_walk_(m, mut_i, deletion_start, deletion_end, size_mod) ==
    IF mut_i >= size(m) \/ At(m.new_pos, mut_i) > deletion_end
    THEN [mutations |-> m, mut_i |-> mut_i, size_mod |-> size_mod]
    ELSE LET sm == At(m.size_modifier, mut_i)
         IN  IF sm = 0
             THEN blowup_walk_(remove_mutation_(m, mut_i), mut_i,
                               deletion_start, deletion_end, size_mod)
             ELSE IF sm > 0
             THEN LET r == merge_del_ins_(m, mut_i, deletion_start, deletion_end,
                                          size_mod)
                  IN  blowup_walk_(r.mutations, r.mut_i,
                                   deletion_start, deletion_end, r.size_mod)
             ELSE blowup_walk_(m, mut_i + 1, deletion_start, deletion_end, size_mod)

\* end of the run of deletion records that starts at index j and lies at
\* new_pos <= limit
RECURSIVE del_run_end_(_, _, _)
del_run_end_(m, j, limit) ==
    IF j < size(m) /\ At(m.size_modifier, j) < 0 /\ At(m.new_pos, j) <= limit
    THEN del_run_end_(m, j + 1, limit)
    ELSE j

\* d[i] + ... + d[j - 1]
RECURSIVE SumRange(_, _, _)
SumRange(d, i, j) == IF i >= j THEN 0 ELSE At(d, i) + SumRange(d, i + 1, j)

\* Resolves the deletion of variant range [deletion_start, deletion_end]
\* against the log.  Returns the log without the records the deletion
\* takes over, the index mut_i where the deletion's record belongs, the
\* size_mod left to record (0: nothing) and its old_pos.
deletion_blowup_(m, deletion_start, deletion_end, size_mod) ==
    LET first == lower_bound_(m.new_pos, 0, size(m), deletion_start)
        \* an insertion that starts before the range and reaches into it
        head  == IF first > 0 /\ At(m.size_modifier, first - 1) > 0
                 THEN merge_del_ins_(m, first - 1, deletion_start, deletion_end,
                                     size_mod)
                 ELSE [mutations |-> m, mut_i |-> first, size_mod |-> size_mod]
        walk  == blowup_walk_(head.mutations, first, deletion_start, deletion_end,
                              head.size_mod)
        m1    == walk.mutations
        \* deletions inside or next to the range, now contiguous with it
        last_ == del_run_end_(m1, first, deletion_end + 1)
        at    == ref_pos(m, deletion_start, get_mut_(m, deletion_start))
    IN  [mutations |-> remove_mutation_range_(m1, first, last_),
         mut_i     |-> first,
         size_mod  |-> walk.size_mod + SumRange(m1.size_modifier, first, last_),
         old_pos   |-> IF last_ > first THEN Min(at, At(m1.old_pos, first)) ELSE at]

\* precondition: size_ >= 1 and new_pos_ + size_ <= chrom_size
add_deletion(vc, size_, new_pos_) ==
    LET m              == vc.mutations
        deletion_start == new_pos_
        deletion_end   == new_pos_ + size_ - 1
        size_mod       == 0 - size_
    IN  IF empty(m)
        THEN [mutations  |-> push_front(m, size_mod, new_pos_, new_pos_, nullptr),
              chrom_size |-> vc.chrom_size + size_mod]
        ELSE LET b == deletion_blowup_(m, deletion_start, deletion_end, size_mod)
             IN  IF b.size_mod < 0
                 THEN calc_positions(
                          [vc EXCEPT !.mutations =
                               insert(b.mutations, b.mut_i, b.size_mod, b.old_pos,
                                      deletion_start, nullptr)],
                          b.mut_i + 1, 0 - size_)
                 ELSE calc_positions([vc EXCEPT !.mutations = b.mutations],
                                     b.mut_i, 0 - size_)

---------------------------------------------------------------------------
(* The state machine: a driver that applies edits to one VarChrom *)

\* a component that is not in use
Idle == [pc |-> "idle"]

Init ==
    /\ ref_chrom \in RefChroms
    /\ mutations = VarChrom(ref_chrom).mutations
    /\ chrom_size = VarChrom(ref_chrom).chrom_size
    /\ plain = ref_chrom
    /\ last = [op |-> "none", pos |-> 0, size |-> 0, nts |-> <<>>]
    /\ prev = VarChrom(ref_chrom)
    /\ n_edits = 0
    /\ location = Idle /\ wr = Idle /\ cs = Idle /\ ms = Idle /\ logs = Idle

Apply(vc, op, pos, len, nts, text) ==
    /\ mutations' = vc.mutations
    /\ chrom_size' = vc.chrom_size
    /\ plain' = text
    /\ last' = [op |-> op, pos |-> pos, size |-> len, nts |-> nts]
    /\ prev' = [mutations |-> mutations, chrom_size |-> chrom_size]
    /\ n_edits' = n_edits + 1
    /\ UNCHANGED ref_chrom

This == [mutations |-> mutations, chrom_size |-> chrom_size]

AddSubstitution(max) ==
    /\ n_edits < max
    /\ UNCHANGED sampler_vars
    /\ \E p \in 0..(chrom_size - 1), c \in SubNucleos :
          Apply(add_substitution(This, c, p), "sub", p, 1, <<c>>,
                Splice(plain, p, 1, <<c>>))

AddInsertion(max) ==
    /\ n_edits < max
    /\ UNCHANGED sampler_vars
    /\ \E p \in 0..(chrom_size - 1), s \in Insertions :
          Apply(add_insertion(This, s, p), "ins", p, Len(s), s,
                Splice(plain, p, 0, s))

AddDeletion(max) ==
    /\ n_edits < max
    /\ UNCHANGED sampler_vars
    /\ \E p \in 0..(chrom_size - 1), k \in 1..MaxDelLen :
          /\ p + k <= chrom_size
          /\ Apply(add_deletion(This, k, p), "del", p, k, <<>>,
                   Splice(plain, p, k, <<>>))

Next == AddSubstitution(MaxEdits) \/ AddInsertion(MaxEdits) \/ AddDeletion(MaxEdits)

Spec == Init /\ [][Next]_vars

\* the same driver with fewer edits, for the chunk reads
NextChunk ==
    \/ AddSubstitution(MaxChunkEdits)
    \/ AddInsertion(MaxChunkEdits)
    \/ AddDeletion(MaxChunkEdits)

SpecChunk == Init /\ [][NextChunk]_vars

---------------------------------------------------------------------------
(* MutationSampler (src/src/mutator.h): mutate and total_rate.  The header *)
(* declares them; LocationSampler and the body of mutate are written here  *)
(* after sections 4.5 and 4.7 of the specification.                        *)

MaxMutations == 2    \* mutate calls on one chromosome

\* q_b: the total mutation intensity of a site holding base b
q_tcag(b) ==
    CASE b = "T" -> 1 [] b = "C" -> 2 [] b = "A" -> 3 [] b = "G" -> 5 [] OTHER -> 0

\* SequenceGammas, one multiplier per site of a chromosome of n sites:
\* one region, or two regions with different multipliers
GammaMats(n) ==
    { [p \in 1..n |-> 1], [p \in 1..n |-> IF p <= 2 THEN 3 ELSE 1] }

\* gamma(p), the multiplier of the region site p lies in
gamma_at(gammas, p) == IF p + 1 \in DOMAIN gammas THEN gammas[p + 1] ELSE 0

\* the rate of site p: q_{base_at(p)} * gamma(p)
site_rate(ref, m, gammas, p) ==
    q_tcag(get_char_(ref, m, p, get_mut_(m, p))) * gamma_at(gammas, p)

RECURSIVE rate_sum_(_, _, _, _, _)
rate_sum_(ref, m, gammas, lo, hi) ==
    IF lo > hi THEN 0
    ELSE site_rate(ref, m, gammas, lo) + rate_sum_(ref, m, gammas, lo + 1, hi)

\* total_rate(start, end, ranged): the sum of the site rates over the range
total_rate(ref, vc, gammas, start, end, ranged) ==
    IF ranged THEN rate_sum_(ref, vc.mutations, gammas, start, end)
    ELSE rate_sum_(ref, vc.mutations, gammas, 0, vc.chrom_size - 1)

\* the regions after an event of signed length len at pos: inserted sites
\* lie in the region of the site they are put in front of, deleted sites
\* leave their region
update_gamma_regions(gammas, len, pos) ==
    IF len > 0
    THEN Splice(gammas, pos, 0, [j \in 1..len |-> gamma_at(gammas, pos)])
    ELSE Splice(gammas, pos, 0 - len, <<>>)

\* the change of the total rate: new rate minus old rate over the site of
\* a substitution, and over [pos - 1, pos + |len| + 1] around an indel,
\* bounded by the chromosome
rate_change_(ref, vc, gammas, vc2, gammas2, len, pos) ==
    LET n       == IF len < 0 THEN 0 - len ELSE len
        lo      == IF len = 0 THEN pos ELSE Max(0, pos - 1)
        hi_long == IF len = 0 THEN pos
                   ELSE Min(Max(vc.chrom_size, vc2.chrom_size) - 1, pos + n + 1)
        hi_old  == IF len > 0 THEN hi_long - n ELSE hi_long
        hi_new  == IF len < 0 THEN hi_long - n ELSE hi_long
    IN  rate_sum_(ref, vc2.mutations, gammas2, lo, hi_new)
          - rate_sum_(ref, vc.mutations, gammas, lo, hi_old)

\* MutationInfo: what sample_type returns for a site holding base b, plus
\* the bases new_nucleos draws for an insertion
MutationInfo(b) ==
    { [length |-> 0, nucleos |-> <<c>>] : c \in SubNucleos \ {b} }
      \cup { [length |-> Len(s), nucleos |-> s] : s \in Insertions }
      \cup { [length |-> 0 - k, nucleos |-> <<>>] : k \in 1..MaxDelLen }

\* step 4 of mutate: the event m at pos goes through the VarChrom
edit_(vc, m, pos) ==
    IF m.length = 0 THEN add_substitution(vc, m.nucleos[1], pos)
    ELSE IF m.length > 0 THEN add_insertion(vc, m.nucleos, pos)
    ELSE add_deletion(vc, 0 - m.length, pos)

\* steps 4 and 5 of mutate: the edit is made, and the change in the total
\* rate is returned.  vc2 and gammas2 are the chromosome and the regions
\* after the edit, each computed once.
mutate_end_unadjusted(ref, vc, gammas, m, pos, end) ==
    CHOOSE r \in
        { [vc |-> vc2, gammas |-> gammas2, end |-> end,
           rate_change |-> rate_change_(ref, vc, gammas, vc2, gammas2, m.length, pos)] :
             vc2 \in {edit_(vc, m, pos)},
             gammas2 \in {update_gamma_regions(gammas, m.length, pos)} } : TRUE

mutate(ref, vc, gammas, m, pos, end) ==
    CHOOSE r \in
        { [vc |-> vc2, gammas |-> gammas2, end |-> end + m.length,
           rate_change |-> rate_change_(ref, vc, gammas, vc2, gammas2, m.length, pos)] :
             vc2 \in {edit_(vc, m, pos)},
             gammas2 \in {update_gamma_regions(gammas, m.length, pos)} } : TRUE

\* the drivers: one calls mutate(eng) on the whole chromosome, the others
\* call mutate(eng, start, end) with a window that is the whole
\* chromosome, one site, or empty
Drivers(n) ==
    { [ranged |-> FALSE, start |-> 0, end |-> 0],
      [ranged |-> TRUE, start |-> 0, end |-> n - 1],
      [ranged |-> TRUE, start |-> 1, end |-> 1],
      [ranged |-> TRUE, start |-> 1, end |-> 0] }

InitMutate ==
    /\ ref_chrom \in RefChroms
    /\ mutations = VarChrom(ref_chrom).mutations
    /\ chrom_size = VarChrom(ref_chrom).chrom_size
    /\ plain = ref_chrom
    /\ last = [op |-> "none", pos |-> 0, size |-> 0, nts |-> <<>>]
    /\ prev = VarChrom(ref_chrom)
    /\ n_edits = 0
    /\ \E gammas \in GammaMats(Len(ref_chrom)), d \in Drivers(Len(ref_chrom)) :
          location = [pc |-> "ready", gammas |-> gammas, ranged |-> d.ranged,
                      start |-> d.start, end |-> d.end, end_in |-> d.end,
                      R |-> total_rate(ref_chrom, VarChrom(ref_chrom),
                                       gammas, 0, 0, FALSE)]
    /\ wr = Idle /\ cs = Idle /\ ms = Idle /\ logs = Idle

\* the event m at site pos, applied to the plain string
PlainEvent(text, m, pos) ==
    IF m.length = 0 THEN Splice(text, pos, 1, m.nucleos)
    ELSE IF m.length > 0 THEN Splice(text, pos, 0, m.nucleos)
    ELSE Splice(text, pos, 0 - m.length, <<>>)

EventOp(m) == IF m.length = 0 THEN "sub" ELSE IF m.length > 0 THEN "ins" ELSE "del"

EventSize(m) == IF m.length = 0 THEN 1 ELSE IF m.length > 0 THEN m.length ELSE 0 - m.length

\* one call of mutate at a site of start..end; the driver adds the value
\* returned to its running total
MutateAt(start, end) ==
    \E pos \in start..end :
    \E m \in MutationInfo(get_char_(ref_chrom, mutations, pos, get_mut_(mutations, pos))) :
       /\ pos - m.length <= chrom_size
       /\ \E r \in {mutate(ref_chrom, This, location.gammas, m, pos, location.end)} :
              /\ Apply(r.vc, EventOp(m), pos, EventSize(m), m.nucleos,
                       PlainEvent(plain, m, pos))
              /\ location' = [location EXCEPT !.gammas = r.gammas,
                                              !.R = @ + r.rate_change,
                                              !.end_in = location.end,
                                              !.end = IF location.ranged
                                                      THEN r.end ELSE @]

\* mutate(eng)
Mutate ==
    /\ location.pc = "ready" /\ ~ location.ranged
    /\ n_edits < MaxMutations
    /\ MutateAt(0, chrom_size - 1)
    /\ UNCHANGED <<wr, cs, ms, logs>>

\* mutate(eng, start, end) with a window that holds a site
MutateRanged ==
    /\ location.pc = "ready" /\ location.ranged
    /\ n_edits < MaxMutations
    /\ location.end >= location.start
    /\ MutateAt(location.start, location.end)
    /\ UNCHANGED <<wr, cs, ms, logs>>

\* mutate(eng, start, end) with an empty window: nothing is done and the
\* rate does not change
MutateEmpty ==
    /\ location.pc = "ready" /\ location.ranged
    /\ n_edits < MaxMutations
    /\ location.end < location.start
    /\ Apply(This, "noop", 0, 0, <<>>, plain)
    /\ location' = [location EXCEPT !.end_in = location.end]
    /\ UNCHANGED <<wr, cs, ms, logs>>

NextMutate == Mutate \/ MutateRanged \/ MutateEmpty

SpecMutate == InitMutate /\ [][NextMutate]_vars

---------------------------------------------------------------------------
(* weighted_reservoir_ (src/src/molecular_evolution.cpp)                    *)

MaxRates == 4     \* length of the longest rates vector
MaxWeight == 2    \* largest weight in a rates vector

\* the rates vectors weighted_reservoir_ is called with
RatesVectors ==
    UNION { [1..n -> 0..MaxWeight] : n \in 1..MaxRates }

\* the values X = log(r) / log(largest_key) can compare as against the
\* running weight sums: above every sum, or anywhere among them.  With
\* largest_key = 0 (a weight of 0 at `start`) log(largest_key) is -inf and
\* X is 0.
XValues(key_is_zero) ==
    IF key_is_zero THEN {0} ELSE 1..(MaxRates * MaxWeight + 1)

\* rates[i]; the read is recorded by the caller
rate_at(rates, i) == IF i + 1 \in DOMAIN rates THEN rates[i + 1] ELSE 0

\* the inner while loop that runs one index past `end`
RECURSIVE reservoir_skip_past_end_(_, _, _, _, _, _, _)
reservoir_skip_past_end_(rates, end, X, i, wt_sum0, wt_sum1, reads) ==
    IF X > wt_sum1 /\ i <= end
    THEN reservoir_skip_past_end_(rates, end, X, i + 1,
                         wt_sum0 + rate_at(rates, i),
                         wt_sum1 + rate_at(rates, i + 1),
                         reads \cup {i, i + 1})
    ELSE [i |-> i, wt_sum0 |-> wt_sum0, wt_sum1 |-> wt_sum1, reads |-> reads]

\* the inner while loop: skip indices until the weight sum reaches X or
\* the range ends
RECURSIVE reservoir_skip_(_, _, _, _, _, _, _)
reservoir_skip_(rates, end, X, i, wt_sum0, wt_sum1, reads) ==
    IF X > wt_sum1 /\ i < end
    THEN reservoir_skip_(rates, end, X, i + 1,
                         wt_sum0 + rate_at(rates, i),
                         wt_sum1 + rate_at(rates, i + 1),
                         reads \cup {i, i + 1})
    ELSE [i |-> i, wt_sum0 |-> wt_sum0, wt_sum1 |-> wt_sum1, reads |-> reads]

\* line 142 with > in place of >=
reservoir_redraws_strict_(wt_sum0, X) == wt_sum0 > X

\* line 142: `if (wt_sum0 >= X) continue;` the pass ends with nothing
\* adopted and c not moved
reservoir_redraws_(wt_sum0, X) == wt_sum0 >= X

InitReservoir ==
    /\ ref_chrom = <<>> /\ mutations = AllMutations /\ chrom_size = 0
    /\ plain = <<>> /\ prev = [mutations |-> AllMutations, chrom_size |-> 0]
    /\ last = [op |-> "none", pos |-> 0, size |-> 0, nts |-> <<>>]
    /\ n_edits = 0
    /\ location = Idle /\ cs = Idle /\ ms = Idle /\ logs = Idle
    /\ \E rates \in RatesVectors :
       \E start \in 0..(Len(rates) - 1) : \E end \in start..(Len(rates) - 1) :
          wr = [pc |-> "call", rates |-> rates, start |-> start, end |-> end,
                c |-> 0, largest_pos |-> 0, key_is_zero |-> FALSE, reads |-> {}]

\* lines 124-129: the first key, from rates[start]
ReservoirStart ==
    /\ wr.pc = "call"
    /\ wr' = [wr EXCEPT !.pc = "loop",
                        !.reads = {wr.start},
                        !.key_is_zero = (rate_at(wr.rates, wr.start) = 0),
                        !.largest_pos = wr.start,
                        !.c = wr.start]
    /\ UNCHANGED <<chrom_vars, location, cs, ms, logs>>

\* lines 130-153: one pass of the outer while loop
ReservoirPass ==
    /\ wr.pc = "loop" /\ wr.c < wr.end
    /\ \E X \in XValues(wr.key_is_zero) :
         LET i0 == wr.c + 1
             s  == reservoir_skip_(wr.rates, wr.end, X, i0,
                                   rate_at(wr.rates, wr.c),
                                   rate_at(wr.rates, wr.c) + rate_at(wr.rates, i0),
                                   wr.reads \cup {wr.c, i0})
         IN  IF X > s.wt_sum1
             THEN wr' = [wr EXCEPT !.pc = "return", !.reads = s.reads]
             ELSE IF reservoir_redraws_(s.wt_sum0, X)
             THEN wr' = [wr EXCEPT !.reads = s.reads]
             ELSE wr' = [wr EXCEPT !.reads = s.reads \cup {s.i},
                                   !.largest_pos = s.i,
                                   !.key_is_zero = FALSE,
                                   !.c = s.i]
    /\ UNCHANGED <<chrom_vars, location, cs, ms, logs>>

\* the loop condition c < end fails
ReservoirLoopEnd ==
    /\ wr.pc = "loop" /\ wr.c >= wr.end
    /\ wr' = [wr EXCEPT !.pc = "return"]
    /\ UNCHANGED <<chrom_vars, location, cs, ms, logs>>

\* line 155: return largest_pos
ReservoirReturn ==
    /\ wr.pc = "return"
    /\ wr' = [wr EXCEPT !.pc = "done"]
    /\ UNCHANGED <<chrom_vars, location, cs, ms, logs>>

NextReservoir ==
    ReservoirStart \/ ReservoirPass \/ ReservoirLoopEnd \/ ReservoirReturn

SpecReservoir == InitReservoir /\ [][NextReservoir]_vars

\* a pass that leaves the loop or moves c on
ReservoirAdvance ==
    ReservoirPass /\ (wr'.pc = "return" \/ wr'.c > wr.c)

\* The function runs on: every step that can be taken is taken, and the
\* uniform draws are not forever confined to the values that make a pass
\* redraw - whenever draws that advance exist, one is drawn in the end.
SpecReservoirFair ==
    /\ InitReservoir /\ [][NextReservoir]_vars
    /\ WF_vars(ReservoirStart) /\ WF_vars(ReservoirLoopEnd)
    /\ WF_vars(ReservoirReturn)
    /\ SF_vars(ReservoirAdvance)

---------------------------------------------------------------------------
(* event_location (src/src/molecular_evolution.cpp)                        *)

\* `uint` arithmetic is modulo 2^32; the model wraps at a modulus that is,
\* like 2^32, far above every size and position it holds
UintModulus == 65536

to_uint(x) == x % UintModulus

\* RateGetter rg(S, mr): a positive rate for each base of S
SiteRates(n) == [1..n -> 1..MaxWeight]

\* the calls: a sequence of 1..MaxRates bases and a chunk_size of 0, 1,
\* below, at and above its size
InitEventLocation ==
    /\ ref_chrom = <<>> /\ mutations = AllMutations /\ chrom_size = 0
    /\ plain = <<>> /\ prev = [mutations |-> AllMutations, chrom_size |-> 0]
    /\ last = [op |-> "none", pos |-> 0, size |-> 0, nts |-> <<>>]
    /\ n_edits = 0
    /\ location = Idle /\ cs = Idle /\ ms = Idle /\ logs = Idle
    /\ \E S_size \in 1..MaxRates : \E rates \in SiteRates(S_size) :
       \E chunk_size \in 0..(MaxRates + 1) :
          wr = [pc |-> "event", S_size |-> S_size, chunk_size |-> chunk_size,
                wrapped |-> FALSE, out |-> 0,
                rates |-> rates, start |-> 0, end |-> 0,
                c |-> 0, largest_pos |-> 0, key_is_zero |-> FALSE, reads |-> {}]

\* line 170: if (S.size() == 1) return 0
EventLocationOne ==
    /\ wr.pc = "event" /\ wr.S_size = 1
    /\ wr' = [wr EXCEPT !.pc = "returned", !.out = 0]
    /\ UNCHANGED <<chrom_vars, location, cs, ms, logs>>

\* lines 177-188: start and end are chosen and weighted_reservoir_ is
\* called.  runif_01(eng) * (S.size() - chunk_size + 1) truncates to one of
\* 0 .. S.size() - chunk_size.  A call whose start or end is not an index
\* of S reads past the end of S: its behaviour is undefined.
EventLocationWindow ==
    /\ wr.pc = "event" /\ wr.S_size # 1
    /\ \E r \in 0..(wr.S_size - wr.chunk_size) :
         LET ranged == wr.chunk_size < wr.S_size
             start  == IF ranged THEN to_uint(r) ELSE 0
             end    == IF ranged THEN to_uint(start + wr.chunk_size - 1)
                       ELSE wr.S_size - 1
         IN  /\ ranged \/ r = 0
             /\ wr' = [wr EXCEPT
                         !.pc = IF start < wr.S_size /\ end < wr.S_size
                                THEN "call" ELSE "undefined",
                         !.wrapped = ranged /\ start + wr.chunk_size - 1 < 0,
                         !.start = start, !.end = end]
    /\ UNCHANGED <<chrom_vars, location, cs, ms, logs>>

\* the outcomes of a call that reads past the end of S: it returns some
\* position, in S or not, or the process is stopped
EventLocationUndefined ==
    /\ wr.pc = "undefined"
    /\ \/ \E p \in 0..wr.S_size : wr' = [wr EXCEPT !.pc = "returned", !.out = p]
       \/ wr' = [wr EXCEPT !.pc = "crashed"]
    /\ UNCHANGED <<chrom_vars, location, cs, ms, logs>>

\* line 190: return largest_pos
EventLocationReturn ==
    /\ wr.pc = "done" /\ "S_size" \in DOMAIN wr
    /\ wr' = [wr EXCEPT !.pc = "returned", !.out = wr.largest_pos]
    /\ UNCHANGED <<chrom_vars, location, cs, ms, logs>>

NextEventLocation ==
    \/ EventLocationOne \/ EventLocationWindow \/ EventLocationUndefined
    \/ ReservoirStart \/ ReservoirPass \/ ReservoirLoopEnd \/ ReservoirReturn
    \/ EventLocationReturn

SpecEventLocation == InitEventLocation /\ [][NextEventLocation]_vars

---------------------------------------------------------------------------
(* create_sequences_, create_genome and rando_seqs                          *)
(* (src/src/create_sequences.cpp)                                           *)

MaxSeqs == 3       \* largest n_seqs
MaxCores == 2      \* largest n_cores
MaxLenMean == 2    \* largest len_mean

\* doubles are modelled in halves: the double x is the integer Half * x
Half == 2

\* static_cast<uint32>(x) of a non-negative double: the integer part
to_uint32(x) == x \div Half

\* the values of len_mean: 0, 1/2, 1, ... MaxLenMean
LenMeans == 0..(Half * MaxLenMean)

\* the values of len_sd: 0 (all lengths equal) and 1
LenSds == {0, Half}

\* the seed vectors mc_seeds hands out, one per core
SeedVectors == {0, 1}

\* table_sampler::bases
bases == <<"T", "C", "A", "G">>

\* a pcg32 engine is its seed and the number of draws taken from it; its
\* output is a function of the two
seeded_pcg(active_seeds) == [seed |-> active_seeds, n |-> 0]

pcg_output(engine) == (engine.seed + engine.n) % 4

pcg_advance(engine) == [engine EXCEPT !.n = @ + 1]

\* distr(engine): a gamma draw, a positive double (1/2 .. 2 here)
gamma_draw(engine) == pcg_output(engine) + 1

\* sampler.sample(engine): an index into bases
sampler_sample(engine) == pcg_output(engine)

\* the size of the team of the parallel region: n_cores threads when the
\* build has OpenMP and n_cores > 1, one thread otherwise
team_size(openmp, n_cores) == IF openmp /\ n_cores > 1 THEN n_cores ELSE 1

\* schedule(static) that hands every thread one iteration too many
static_chunk_overlapping(n, n_threads, t) ==
    LET q == n \div n_threads
        r == n % n_threads
        lo == IF t < r THEN t * (q + 1) ELSE t * q + r
        hi == IF t < r THEN lo + q + 1 ELSE lo + q
    IN  [lo |-> lo, hi |-> Min(n, hi + 1)]

\* schedule(static): the iterations 0..n-1 are cut into n_threads
\* contiguous chunks, thread t takes chunk t
static_chunk(n, n_threads, t) ==
    LET q == n \div n_threads
        r == n % n_threads
        lo == IF t < r THEN t * (q + 1) ELSE t * q + r
        hi == IF t < r THEN lo + q + 1 ELSE lo + q
    IN  [lo |-> lo, hi |-> hi]

\* lines 112-116 drawing from the gamma distribution whatever len_sd is
sequence_length_always_draws(len_mean, len_sd, engine) ==
    LET len == to_uint32(gamma_draw(engine))
    IN  [len |-> IF len < 1 THEN 1 ELSE len, engine |-> pcg_advance(engine),
         gamma_draws |-> 1]

\* lines 112-116: the length of the next sequence
sequence_length(len_mean, len_sd, engine) ==
    IF len_sd > 0
    THEN LET len == to_uint32(gamma_draw(engine))
         IN  [len |-> IF len < 1 THEN 1 ELSE len, engine |-> pcg_advance(engine),
              gamma_draws |-> 1]
    ELSE [len |-> to_uint32(len_mean), engine |-> engine, gamma_draws |-> 0]

\* the inputs of one call
CreateInputs ==
    { in \in [n_seqs : 0..MaxSeqs, len_mean : LenMeans, len_sd : LenSds,
              n_cores : 1..MaxCores, openmp : BOOLEAN,
              genome : BOOLEAN] :
         in.len_sd > 0 => in.len_mean > 0 }

\* RefGenome(N): N empty sequences, total_size 0
RefGenome(N) == [sequences |-> [i \in 1..N |-> <<>>], total_size |-> 0]

\* ref.total_size += ref[i].size() that drops what was summed before
add_size_overwriting(total_size, seq) == Len(seq)

\* ref.total_size += ref[i].size()
add_size(total_size, seq) == total_size + Len(seq)

\* the sequences a thread produces for the iterations i..hi-1 when it runs
\* them in order on its own engine
RECURSIVE chunk_seqs_(_, _, _, _)
chunk_seqs_(in, engine, i, hi) ==
    IF i >= hi THEN <<>>
    ELSE LET r == sequence_length(in.len_mean, in.len_sd, engine)
             seq == [j \in 1..r.len |->
                        bases[sampler_sample([r.engine EXCEPT !.n = @ + j - 1]) + 1]]
         IN  <<seq>> \o chunk_seqs_(in, [r.engine EXCEPT !.n = @ + r.len], i + 1, hi)

\* the sequences of the threads 0..t, each run on its own
RECURSIVE team_seqs_(_, _, _, _)
team_seqs_(in, seeds, n_threads, t) ==
    IF t < 0 THEN <<>>
    ELSE team_seqs_(in, seeds, n_threads, t - 1)
           \o chunk_seqs_(in, seeded_pcg(seeds[t]),
                          static_chunk(in.n_seqs, n_threads, t).lo,
                          static_chunk(in.n_seqs, n_threads, t).hi)

\* a thread of the team before it has run anything
NewWorker(in, n_threads, t) ==
    [pc |-> "seed", active_thread |-> t, engine |-> seeded_pcg(0),
     i |-> static_chunk(in.n_seqs, n_threads, t).lo,
     hi |-> static_chunk(in.n_seqs, n_threads, t).hi,
     len |-> 0, j |-> 0]

InitCreate ==
    /\ ref_chrom = <<>> /\ mutations = AllMutations /\ chrom_size = 0
    /\ plain = <<>> /\ prev = [mutations |-> AllMutations, chrom_size |-> 0]
    /\ last = [op |-> "none", pos |-> 0, size |-> 0, nts |-> <<>>]
    /\ n_edits = 0
    /\ location = Idle /\ wr = Idle /\ ms = Idle /\ logs = Idle
    /\ \E in \in CreateInputs :
       \E seeds \in [0..(in.n_cores - 1) -> SeedVectors] :
          cs = [pc |-> "parallel", in |-> in, seeds |-> seeds,
                n_threads |-> team_size(in.openmp, in.n_cores),
                worker |-> [t \in 0..(team_size(in.openmp, in.n_cores) - 1) |->
                              NewWorker(in, team_size(in.openmp, in.n_cores), t)],
                seqs_out |-> RefGenome(in.n_seqs).sequences,
                writers |-> [i \in 1..in.n_seqs |-> <<>>],
                seeded |-> <<>>,
                gamma_draws |-> 0,
                total_size |-> RefGenome(in.n_seqs).total_size, summed |-> 0]

\* the worker goes on to the next iteration of its chunk
next_iteration_(w) ==
    [w EXCEPT !.i = w.i + 1, !.j = 0,
              !.pc = IF w.i + 1 < w.hi THEN "len" ELSE "done"]

\* lines 87-102: the thread seeds its own engine from seeds[active_thread]
WorkerSeed(t) ==
    /\ cs.pc = "parallel" /\ t \in DOMAIN cs.worker
    /\ cs.worker[t].pc = "seed"
    /\ LET w == cs.worker[t]
           active_thread == IF cs.in.openmp THEN w.active_thread ELSE 0
       IN  cs' = [cs EXCEPT
                   !.worker[t] = [w EXCEPT
                        !.engine = seeded_pcg(cs.seeds[active_thread]),
                        !.pc = IF w.i < w.hi THEN "len" ELSE "done"],
                   !.seeded = Append(@, [thread |-> t, seeds |-> active_thread])]
    /\ UNCHANGED <<chrom_vars, location, wr, ms, logs>>

\* lines 109-118: the length of sequence i is chosen and the sequence
\* resized to it
WorkerLength(t) ==
    /\ cs.pc = "parallel" /\ t \in DOMAIN cs.worker
    /\ cs.worker[t].pc = "len"
    /\ LET w == cs.worker[t]
           r == sequence_length(cs.in.len_mean, cs.in.len_sd, w.engine)
           w2 == [w EXCEPT !.engine = r.engine, !.len = r.len, !.j = 0,
                           !.pc = "fill"]
       IN  cs' = [cs EXCEPT
                   !.worker[t] = IF r.len = 0 THEN next_iteration_(w2) ELSE w2,
                   !.seqs_out[w.i + 1] = [j \in 1..r.len |-> "x"],
                   !.writers[w.i + 1] = IF t \in Range(@) THEN @ ELSE Append(@, t),
                   !.gamma_draws = @ + r.gamma_draws]
    /\ UNCHANGED <<chrom_vars, location, wr, ms, logs>>

\* lines 119-122: one base of sequence i is drawn and stored
WorkerBase(t) ==
    /\ cs.pc = "parallel" /\ t \in DOMAIN cs.worker
    /\ cs.worker[t].pc = "fill"
    /\ LET w == cs.worker[t]
           k == sampler_sample(w.engine)
           w2 == [w EXCEPT !.engine = pcg_advance(w.engine), !.j = w.j + 1]
       IN  cs' = [cs EXCEPT
                   !.worker[t] = IF w.j + 1 < w.len THEN w2 ELSE next_iteration_(w2),
                   !.seqs_out[w.i + 1] =
                        IF w.j + 1 \in DOMAIN @ THEN [@ EXCEPT ![w.j + 1] = bases[k + 1]]
                        ELSE @]
    /\ UNCHANGED <<chrom_vars, location, wr, ms, logs>>

\* lines 125-129: the team joins and create_sequences_ returns seqs_out
CreateReturn ==
    /\ cs.pc = "parallel"
    /\ \A t \in DOMAIN cs.worker : cs.worker[t].pc = "done"
    /\ cs' = [cs EXCEPT !.pc = IF cs.in.genome THEN "sum" ELSE "done"]
    /\ UNCHANGED <<chrom_vars, location, wr, ms, logs>>

\* create_genome, lines 172-175: the size of one sequence is added to
\* total_size
GenomeSum ==
    /\ cs.pc = "sum" /\ cs.summed < cs.in.n_seqs
    /\ cs' = [cs EXCEPT !.total_size = add_size(@, cs.seqs_out[cs.summed + 1]),
                        !.summed = @ + 1]
    /\ UNCHANGED <<chrom_vars, location, wr, ms, logs>>

\* create_genome, line 178
GenomeReturn ==
    /\ cs.pc = "sum" /\ cs.summed >= cs.in.n_seqs
    /\ cs' = [cs EXCEPT !.pc = "done"]
    /\ UNCHANGED <<chrom_vars, location, wr, ms, logs>>

NextCreate ==
    \/ \E t \in 0..(MaxCores - 1) : WorkerSeed(t)
    \/ \E t \in 0..(MaxCores - 1) : WorkerLength(t)
    \/ \E t \in 0..(MaxCores - 1) : WorkerBase(t)
    \/ CreateReturn
    \/ GenomeSum
    \/ GenomeReturn

SpecCreate == InitCreate /\ [][NextCreate]_vars

---------------------------------------------------------------------------
(* The rate model: the constructor MutationSampler(Q, xi, psi, pis, ...)   *)
(* of src/src/molecular_evolution.cpp and fill_probs_q_tcag of             *)
(* src/src/mutator.h.                                                      *)
(*                                                                         *)
(* A double is modelled as a fraction [n, d] in lowest terms.  d = 0 is a  *)
(* value that is not finite: n # 0 is an infinity, n = 0 is NaN.  The      *)
(* operations are those of IEEE arithmetic on such values: x / 0 is an     *)
(* infinity, 0 / 0 is NaN, x / infinity is 0.                              *)

MaxIndel == 2    \* longest insertion and longest deletion of the rate model

Abs(x) == IF x < 0 THEN 0 - x ELSE x

RECURSIVE Gcd(_, _)
Gcd(a, b) == IF b = 0 THEN a ELSE Gcd(b, a % b)

Sign(x) == IF x > 0 THEN 1 ELSE IF x < 0 THEN 0 - 1 ELSE 0

\* the fraction n / d in lowest terms, d >= 0
Frac(n, d) ==
    IF d = 0 THEN [n |-> Sign(n), d |-> 0]
    ELSE LET g == Gcd(Abs(n), Abs(d))
         IN  [n |-> Sign(d) * (n \div g), d |-> Abs(d) \div g]

Num(k) == Frac(k, 1)

FAdd(a, b) == Frac(a.n * b.d + b.n * a.d, a.d * b.d)
FMul(a, b) == Frac(a.n * b.n, a.d * b.d)
FDiv(a, b) == Frac(a.n * b.d, a.d * b.n)
FNeg(a) == [a EXCEPT !.n = 0 - a.n]

IsFinite(a) == a.d # 0
IsNegative(a) == a.n < 0

\* std::accumulate / arma::accu over a vector of doubles
RECURSIVE accu(_)
accu(v) == IF v = <<>> THEN Num(0) ELSE FAdd(v[1], accu(Tail(v)))

\* every element of v divided by x, multiplied by x
DivAll(v, x) == [j \in DOMAIN v |-> FDiv(v[j], x)]
MulAll(v, x) == [j \in DOMAIN v |-> FMul(v[j], x)]

\* the rate matrices: rows are the base mutated, Q[i][i] is minus the sum
\* of the rest of row i.  One matrix with all rates equal, one with rates
\* that depend on the new base.
RateMatrices ==
    { << <<-3, 1, 1, 1>>, <<1, -3, 1, 1>>, <<1, 1, -3, 1>>, <<1, 1, 1, -3>> >>,
      << <<-5, 2, 1, 2>>, <<1, -4, 1, 2>>, <<1, 2, -5, 2>>, <<1, 2, 1, -4>> >> }

\* relative insertion / deletion rates: one weight per length
RelRates ==
    UNION { [1..n -> {0, 1}] : n \in 1..MaxIndel } \cup { <<0 - 1>>, <<3, 1>> }

\* the arguments of one construction; pis is in quarters, so that
\* <<1, 1, 1, 1>> is the vector of four frequencies of 0.25
RateInputs ==
    [Q : RateMatrices, xi : {0 - 1, 0, 1}, psi : {0 - 2, 0 - 1, 0, 1, 2},
     pis : { <<1, 1, 1, 1>>, <<1, 1, 1, 2>> },
     rel_insertion_rates : RelRates, rel_deletion_rates : RelRates]

NumAll(v) == [j \in DOMAIN v |-> Num(v[j])]

\* lines 46-53: the relative rates are made to sum to 1 and then to the
\* overall insertion rate xi / (1 + 1/psi) or deletion rate xi / (1 + psi)
insertion_rates(xi, psi, rel_insertion_rates) ==
    LET xi_i == FDiv(Num(xi), FAdd(Num(1), FDiv(Num(1), Num(psi))))
    IN  MulAll(DivAll(NumAll(rel_insertion_rates), accu(NumAll(rel_insertion_rates))),
               xi_i)

deletion_rates(xi, psi, rel_deletion_rates) ==
    LET xi_d == FDiv(Num(xi), FAdd(Num(1), Num(psi)))
    IN  MulAll(DivAll(NumAll(rel_deletion_rates), accu(NumAll(rel_deletion_rates))),
               xi_d)

\* lines 89-98 with the deletions written from slot 4 on
event_lengths_deletions_first_(n_ins, n_del) ==
    [j \in 1..(4 + n_ins + n_del) |->
        IF j <= 4 THEN 0 ELSE IF j <= 4 + n_del THEN 0 - (j - 4) ELSE j - 4 - n_del]

\* lines 89-98: event_lengths, 0 for the substitutions, +k for an insertion
\* of k bases, -k for a deletion of k bases
event_lengths(n_ins, n_del) ==
    [j \in 1..(4 + n_ins + n_del) |->
        IF j <= 4 THEN 0 ELSE IF j <= 4 + n_ins THEN j - 4 ELSE 0 - (j - 4 - n_ins)]

\* fill_mut_lengths(mut_lengths, insertion_rates, deletion_rates): four
\* zeros pushed back, then i + 1 for each insertion rate, then -(i + 1)
\* for each deletion rate
fill_mut_lengths(ins, del) ==
    [j \in 1..4 |-> 0] \o [j \in 1..Len(ins) |-> j] \o [j \in 1..Len(del) |-> 0 - j]

\* lines 61-87 for base i (0-based) without the assignment of line 74
sampler_probs_diagonal_kept_(Q, ins, del, i) ==
    LET col == [j \in 1..4 |-> Num(Q[j][i + 1])]
        qi  == FNeg(col[i + 1])
        qc  == col \o ins \o del
    IN  [qi |-> qi, qc |-> DivAll(qc, qi)]

\* lines 61-87 for base i (0-based): column i of Q with cell i set to 0,
\* then the insertion and the deletion rates, all divided by qi = -Q(i, i)
sampler_probs_(Q, ins, del, i) ==
    LET col == [j \in 1..4 |-> Num(Q[j][i + 1])]
        qi  == FNeg(col[i + 1])
        qc  == [j \in 1..4 |-> IF j = i + 1 THEN Num(0) ELSE col[j]] \o ins \o del
    IN  [qi |-> qi, qc |-> DivAll(qc, qi)]

\* TableSampler(qc) of line 86 and TableStringSampler(bases, pis) of line
\* 101 are built by constructors that are not among these sources.  Given
\* finite non-negative weights and pis that sum to 1 they build a sampler;
\* given anything else they may build one or may throw.
sampler_throws_(probs, pis) ==
    IF /\ \A i \in 1..4 : \A j \in DOMAIN probs[i] :
              IsFinite(probs[i][j]) /\ ~ IsNegative(probs[i][j])
       /\ pis[1] + pis[2] + pis[3] + pis[4] = 4
    THEN {FALSE} ELSE {FALSE, TRUE}

\* MutationSampler::MutationSampler(Q, xi, psi, pis, rel_insertion_rates,
\* rel_deletion_rates).  No statement of lines 44-98 throws or tests an
\* argument; threw is the outcome of the two sampler constructors.
MutationSampler(in, threw) ==
    LET ins == insertion_rates(in.xi, in.psi, in.rel_insertion_rates)
        del == deletion_rates(in.xi, in.psi, in.rel_deletion_rates)
    IN  [threw |-> threw,
         rates |-> [i \in 1..4 |-> sampler_probs_(in.Q, ins, del, i - 1).qi],
         probs |-> [i \in 1..4 |-> sampler_probs_(in.Q, ins, del, i - 1).qc],
         event_lengths |-> event_lengths(Len(in.rel_insertion_rates),
                                         Len(in.rel_deletion_rates)),
         nucleos |-> in.pis]

\* lines 159-185 of mutator.h for base i (0-based): row i of Q with cell i
\* set to 0, then a quarter of each insertion and deletion rate, all
\* divided by their sum qi
fill_probs_(Q, ins, del, i) ==
    LET row == [j \in 1..4 |-> Num(Q[i + 1][j])]
        qc  == [j \in 1..4 |-> IF j = i + 1 THEN Num(0) ELSE row[j]]
                 \o MulAll(ins, Frac(1, 4)) \o MulAll(del, Frac(1, 4))
        qi  == accu(qc)
    IN  [qi |-> qi, qc |-> DivAll(qc, qi)]

\* fill_probs_q_tcag(probs, q_tcag, Q, pi_tcag, insertion_rates,
\* deletion_rates).  No statement of it throws; pi_tcag is not read.
fill_probs_q_tcag(Q, pi_tcag, ins, del) ==
    [threw |-> FALSE,
     q_tcag |-> [i \in 1..4 |-> fill_probs_(Q, ins, del, i - 1).qi],
     probs |-> [i \in 1..4 |-> fill_probs_(Q, ins, del, i - 1).qc],
     event_lengths |-> fill_mut_lengths(ins, del)]

InitRates ==
    /\ ref_chrom = <<>> /\ mutations = AllMutations /\ chrom_size = 0
    /\ plain = <<>> /\ prev = [mutations |-> AllMutations, chrom_size |-> 0]
    /\ last = [op |-> "none", pos |-> 0, size |-> 0, nts |-> <<>>]
    /\ n_edits = 0
    /\ location = Idle /\ wr = Idle /\ cs = Idle /\ logs = Idle
    /\ \E in \in RateInputs : ms = [pc |-> "args", in |-> in]

\* MutationSampler ms(Q, xi, psi, pis, rel_insertion_rates, rel_deletion_rates)
ConstructSampler ==
    /\ ms.pc = "args"
    /\ \E threw \in sampler_throws_(MutationSampler(ms.in, FALSE).probs, ms.in.pis) :
          ms' = [pc |-> "built", in |-> ms.in, out |-> MutationSampler(ms.in, threw)]
    /\ UNCHANGED <<chrom_vars, location, wr, cs, logs>>

\* fill_probs_q_tcag called with the insertion and deletion rates of the
\* same arguments
FillProbs ==
    /\ ms.pc = "args"
    /\ ms' = [pc |-> "filled", in |-> ms.in,
              out |-> fill_probs_q_tcag(ms.in.Q, ms.in.pis,
                         insertion_rates(ms.in.xi, ms.in.psi, ms.in.rel_insertion_rates),
                         deletion_rates(ms.in.xi, ms.in.psi, ms.in.rel_deletion_rates))]
    /\ UNCHANGED <<chrom_vars, location, wr, cs, logs>>

\* the weights a sampler can be built from: finite and not negative
ProperWeights(probs) ==
    \A i \in 1..4 : \A j \in DOMAIN probs[i] :
        IsFinite(probs[i][j]) /\ ~ IsNegative(probs[i][j])

\* sample_type(c, eng): the sampler of base c returns a slot of positive
\* weight, and the event is read from event_lengths at that slot
SampleType ==
    /\ ms.pc \in {"built", "filled"}
    /\ ~ ms.out.threw /\ ProperWeights(ms.out.probs)
    /\ \E c \in 1..4 :
       \E j \in DOMAIN ms.out.probs[c] :
          /\ ms.out.probs[c][j].n > 0
          /\ ms' = [pc |-> "sampled", in |-> ms.in, out |-> ms.out, by |-> ms.pc,
                    c |-> c, slot |-> j,
                    length |-> ms.out.event_lengths[j],
                    nucleo |-> IF j <= 4 THEN j ELSE 0]
    /\ UNCHANGED <<chrom_vars, location, wr, cs, logs>>

NextRates == ConstructSampler \/ FillProbs \/ SampleType

SpecRates == InitRates /\ [][NextRates]_vars

---------------------------------------------------------------------------
(* struct AllMutations with its memory (src/src/var_classes.h 100-280):    *)
(* `nucleos` holds pointers to buffers made by new char[] and released by  *)
(* delete [].  The heap is the sequence of all buffers ever made; a buffer *)
(* is never handed out twice, so that a pointer to a released buffer stays *)
(* recognisable.                                                           *)

MaxBuffers == 4    \* buffers allocated in one run
MaxLogOps == 4     \* operations in one run

\* the AllMutations objects of a run
Objects == {"a", "b"}

\* the records pushed and inserted: a substitution (the `const char&`
\* overloads), an insertion and a deletion (the `const char*` overloads)
SampleRecords ==
    { [sm |-> 0, op |-> 1, np |-> 1, nts |-> <<"A">>],
      [sm |-> 2, op |-> 1, np |-> 1, nts |-> <<"C", "G">>],
      [sm |-> 0 - 1, op |-> 2, np |-> 2, nts |-> nullptr] }

\* the null pointer as a value of the `nucleos` deque
NullPointer == 0

\* fill_one_nucleos__(nts, one_nucleos), both overloads: a null nts leaves
\* the slot null, otherwise new char[] gives a buffer that holds the bytes
new_nucleos_(M, nts) ==
    IF nts = nullptr THEN [M |-> M, p |-> NullPointer]
    ELSE [M |-> [M EXCEPT !.heap = Append(@, [state |-> "live", bytes |-> nts])],
          p |-> Len(M.heap) + 1]

\* delete [] p: nothing for a null pointer; releasing a buffer that was
\* released before is undefined
delete_(M, p) ==
    IF p = NullPointer THEN M
    ELSE IF M.heap[p].state = "live" THEN [M EXCEPT !.heap[p].state = "freed"]
    ELSE [M EXCEPT !.double_free = TRUE]

\* delete [] on each of ptrs[from], ..., ptrs[to - 1]
RECURSIVE delete_all_(_, _, _, _)
delete_all_(M, ptrs, from, to) ==
    IF from >= to THEN M
    ELSE delete_all_(delete_(M, ptrs[from + 1]), ptrs, from + 1, to)

\* AllMutations()
EmptyLog ==
    [alive |-> TRUE, size_modifier |-> <<>>, old_pos |-> <<>>, new_pos |-> <<>>,
     nucleos |-> <<>>]

\* an object before its constructor and after its destructor
NoLog ==
    [alive |-> FALSE, size_modifier |-> <<>>, old_pos |-> <<>>, new_pos |-> <<>>,
     nucleos |-> <<>>]

\* lines 114-116 and 125-127: for each i, fill_one_nucleos__(
\* other.nucleos[i], &nucleos[i]), `this` being x and `other` being y
RECURSIVE copy_nucleos_(_, _, _, _)
copy_nucleos_(M, x, y, i) ==
    IF i >= Len(M.obj[x].nucleos) THEN M
    ELSE copy_nucleos_(
             CHOOSE M2 \in
                 { [f.M EXCEPT !.obj[x].nucleos =
                       SubSeq(M.obj[x].nucleos, 1, i) \o <<f.p>>
                           \o SubSeq(M.obj[x].nucleos, i + 2, Len(M.obj[x].nucleos))] :
                     f \in {new_nucleos_(M,
                               IF M.obj[y].nucleos[i + 1] = NullPointer THEN nullptr
                               ELSE M.heap[M.obj[y].nucleos[i + 1]].bytes)} } :
                 TRUE,
             x, y, i + 1)

\* AllMutations(const AllMutations& other), lines 109-117
copy_constructor(M, x, y) ==
    copy_nucleos_(
        [M EXCEPT !.obj[x] =
            [alive |-> TRUE,
             size_modifier |-> M.obj[y].size_modifier,
             old_pos |-> M.obj[y].old_pos,
             new_pos |-> M.obj[y].new_pos,
             nucleos |-> [j \in 1..Len(M.obj[y].nucleos) |-> NullPointer]]],
        x, y, 0)

\* operator=(const AllMutations& other), lines 118-129: the three deques
\* are assigned, the buffers of this object released, `nucleos` replaced
\* by other.nucleos.size() null pointers and filled from other.nucleos
assign(M, x, y) ==
    copy_nucleos_(
        [delete_all_(M, M.obj[x].nucleos, 0, Len(M.obj[x].nucleos))
           EXCEPT !.obj[x] =
              [alive |-> TRUE,
               size_modifier |-> M.obj[y].size_modifier,
               old_pos |-> M.obj[y].old_pos,
               new_pos |-> M.obj[y].new_pos,
               nucleos |-> [j \in 1..Len(M.obj[y].nucleos) |-> NullPointer]]],
        x, y, 0)

\* ~AllMutations(), lines 131-135
destructor(M, x) ==
    [delete_all_(M, M.obj[x].nucleos, 0, Len(M.obj[x].nucleos))
       EXCEPT !.obj[x] = NoLog]

\* clear(), lines 145-160: the four deques are emptied
clear(M, x) ==
    IF Len(M.obj[x].old_pos) = 0 THEN M
    ELSE [M EXCEPT !.obj[x] = EmptyLog]

\* insert(ind, sm, op, np, nts) and insert(ind, sm, op, np, nt), lines
\* 208-233: the record goes in front of index ind, its `nucleos` slot is
\* filled by fill_one_nucleos__
AllMutations_insert(M, x, ind, r) ==
    CHOOSE M2 \in
        { [f.M EXCEPT !.obj[x] =
              [alive |-> TRUE,
               size_modifier |-> DequeInsert(M.obj[x].size_modifier, ind, r.sm),
               old_pos |-> DequeInsert(M.obj[x].old_pos, ind, r.op),
               new_pos |-> DequeInsert(M.obj[x].new_pos, ind, r.np),
               nucleos |-> DequeInsert(M.obj[x].nucleos, ind, f.p)]] :
            f \in {new_nucleos_(M, r.nts)} } :
        TRUE

\* push_front(sm, op, np, nts) and push_front(sm, op, np, nt), lines 162-183
AllMutations_push_front(M, x, r) == AllMutations_insert(M, x, 0, r)

\* push_back(sm, op, np, nts) and push_back(sm, op, np, nt), lines 185-206
AllMutations_push_back(M, x, r) ==
    AllMutations_insert(M, x, Len(M.obj[x].old_pos), r)

\* erase(ind1, ind2), lines 246-254
AllMutations_erase_range(M, x, ind1, ind2) ==
    [delete_all_(M, M.obj[x].nucleos, ind1, ind2) EXCEPT !.obj[x] =
        [alive |-> TRUE,
         size_modifier |-> DequeErase(M.obj[x].size_modifier, ind1, ind2),
         old_pos |-> DequeErase(M.obj[x].old_pos, ind1, ind2),
         new_pos |-> DequeErase(M.obj[x].new_pos, ind1, ind2),
         nucleos |-> DequeErase(M.obj[x].nucleos, ind1, ind2)]]

\* erase(ind), lines 235-243
AllMutations_erase(M, x, ind) == AllMutations_erase_range(M, x, ind, ind + 1)

\* what a reader of the log of object x sees: the four deques, each
\* pointer of `nucleos` replaced by the bytes behind it ("freed" for a
\* pointer to a released buffer)
Content(M, x) ==
    [alive |-> M.obj[x].alive,
     size_modifier |-> M.obj[x].size_modifier,
     old_pos |-> M.obj[x].old_pos,
     new_pos |-> M.obj[x].new_pos,
     nucleos |-> [j \in 1..Len(M.obj[x].nucleos) |->
                     IF M.obj[x].nucleos[j] = NullPointer THEN nullptr
                     ELSE IF M.heap[M.obj[x].nucleos[j]].state = "live"
                          THEN M.heap[M.obj[x].nucleos[j]].bytes
                          ELSE <<"freed">>]]

\* the operation `op` on x (and y) has taken the memory to M
log_step_(M, op, x, y) ==
    /\ logs.pc = "run"
    /\ logs.n_ops < MaxLogOps
    /\ Len(M.heap) <= MaxBuffers
    /\ logs' = [M EXCEPT !.n_ops = logs.n_ops + 1,
                         !.last = [op |-> op, x |-> x, y |-> y],
                         !.before = [z \in Objects |-> Content(logs, z)]]
    /\ UNCHANGED <<chrom_vars, location, wr, cs, ms>>

LogConstruct ==
    \E x \in Objects :
        /\ logs.pc = "run"
        /\ ~logs.obj[x].alive
        /\ log_step_([logs EXCEPT !.obj[x] = EmptyLog], "construct", x, x)

LogCopyConstruct ==
    \E x \in Objects, y \in Objects :
        /\ logs.pc = "run"
        /\ ~logs.obj[x].alive
        /\ logs.obj[y].alive
        /\ \E M \in {copy_constructor(logs, x, y)} : log_step_(M, "copy", x, y)

LogAssign ==
    \E x \in Objects, y \in Objects :
        /\ logs.pc = "run"
        /\ logs.obj[x].alive
        /\ logs.obj[y].alive
        /\ \E M \in {assign(logs, x, y)} : log_step_(M, "assign", x, y)

LogDestroy ==
    \E x \in Objects :
        /\ logs.pc = "run"
        /\ logs.obj[x].alive
        /\ \E M \in {destructor(logs, x)} : log_step_(M, "destroy", x, x)

LogClear ==
    \E x \in Objects :
        /\ logs.pc = "run"
        /\ logs.obj[x].alive
        /\ \E M \in {clear(logs, x)} : log_step_(M, "clear", x, x)

LogPushFront ==
    \E x \in Objects, r \in SampleRecords :
        /\ logs.pc = "run"
        /\ logs.obj[x].alive
        /\ \E M \in {AllMutations_push_front(logs, x, r)} :
               log_step_(M, "push_front", x, x)

LogPushBack ==
    \E x \in Objects, r \in SampleRecords :
        /\ logs.pc = "run"
        /\ logs.obj[x].alive
        /\ \E M \in {AllMutations_push_back(logs, x, r)} :
               log_step_(M, "push_back", x, x)

LogInsert ==
    \E x \in Objects, r \in SampleRecords :
        /\ logs.pc = "run"
        /\ logs.obj[x].alive
        /\ \E ind \in 0..Len(logs.obj[x].old_pos) :
               \E M \in {AllMutations_insert(logs, x, ind, r)} :
                   log_step_(M, "insert", x, x)

LogErase ==
    \E x \in Objects :
        /\ logs.pc = "run"
        /\ logs.obj[x].alive
        /\ \E ind \in 0..(Len(logs.obj[x].old_pos) - 1) :
               \E M \in {AllMutations_erase(logs, x, ind)} :
                   log_step_(M, "erase", x, x)

LogEraseRange ==
    \E x \in Objects :
        /\ logs.pc = "run"
        /\ logs.obj[x].alive
        /\ \E ind1 \in 0..Len(logs.obj[x].old_pos) :
               \E ind2 \in ind1..Len(logs.obj[x].old_pos) :
                   \E M \in {AllMutations_erase_range(logs, x, ind1, ind2)} :
                       log_step_(M, "erase_range", x, x)

\* a byte of an inserted-bytes buffer of x is overwritten through the
\* pointer in `nucleos`, as a substitution inside an insertion does
LogSetByte ==
    \E x \in Objects :
        /\ logs.pc = "run"
        /\ logs.obj[x].alive
        /\ \E j \in 1..Len(logs.obj[x].nucleos) :
               /\ logs.obj[x].nucleos[j] # NullPointer
               /\ logs.heap[logs.obj[x].nucleos[j]].state = "live"
               /\ log_step_([logs EXCEPT !.heap[logs.obj[x].nucleos[j]].bytes[1] = "T"],
                            "set_byte", x, x)

InitLog ==
    /\ ref_chrom = <<>> /\ mutations = AllMutations /\ chrom_size = 0
    /\ plain = <<>> /\ prev = [mutations |-> AllMutations, chrom_size |-> 0]
    /\ last = [op |-> "none", pos |-> 0, size |-> 0, nts |-> <<>>]
    /\ n_edits = 0
    /\ location = Idle /\ wr = Idle /\ cs = Idle /\ ms = Idle
    /\ logs = [pc |-> "run",
               heap |-> <<>>,
               obj |-> [z \in Objects |-> IF z = "a" THEN EmptyLog ELSE NoLog],
               double_free |-> FALSE,
               n_ops |-> 0,
               last |-> [op |-> "none", x |-> "a", y |-> "a"],
               before |-> [z \in Objects |->
                              [alive |-> z = "a", size_modifier |-> <<>>,
                               old_pos |-> <<>>, new_pos |-> <<>>,
                               nucleos |-> <<>>]]]

NextLog ==
    \/ LogConstruct
    \/ LogCopyConstruct
    \/ LogAssign
    \/ LogDestroy
    \/ LogClear
    \/ LogPushFront
    \/ LogPushBack
    \/ LogInsert
    \/ LogErase
    \/ LogEraseRange
    \/ LogSetByte

SpecLog == InitLog /\ [][NextLog]_vars

---------------------------------------------------------------------------
SizeIsRefPlusModifiers ==
    chrom_size = Len(ref_chrom)
                   + SumRange(mutations.size_modifier, 0, size(mutations))

\* the last edit was a deletion that removed, truncated or merged records
C2Witness ==
    /\ last.op = "del"
    /\ \E i \in 0..(size(prev.mutations) - 1) :
          /\ At(prev.mutations.size_modifier, i) > 0
          /\ \A j \in 0..(size(mutations) - 1) :
                nucleos_at(mutations, j) # nucleos_at(prev.mutations, i)
    /\ size(mutations) > 0
    /\ chrom_size = Len(ref_chrom)
                      + SumRange(mutations.size_modifier, 0, size(mutations))

FullLengthIsChromSize == Len(get_chrom_full(ref_chrom, mutations)) = chrom_size

\* the size has changed through an insertion and a deletion
C7Witness ==
    /\ chrom_size # Len(ref_chrom)
    /\ \E i, j \in 0..(size(mutations) - 1) :
          /\ At(mutations.size_modifier, i) > 0
          /\ At(mutations.size_modifier, j) < 0
    /\ Len(get_chrom_full(ref_chrom, mutations)) = chrom_size

\* shape of the log: the bytes a record owns match its kind
LogWellFormed ==
    /\ Len(mutations.size_modifier) = size(mutations)
    /\ Len(mutations.new_pos) = size(mutations)
    /\ Len(mutations.nucleos) = size(mutations)
    /\ \A i \in 0..(size(mutations) - 1) :
          LET sm == At(mutations.size_modifier, i)
          IN  /\ Len(nucleos_at(mutations, i)) = len_in_variant(sm)
              /\ At(mutations.old_pos, i) >= 0
              /\ At(mutations.new_pos, i) >= 0
              /\ At(mutations.old_pos, i) + len_in_reference(sm) <= Len(ref_chrom)
    \* contiguous deletions next to each other in the log are merged
    /\ \A i \in 0..(size(mutations) - 2) :
          (At(mutations.size_modifier, i) < 0 /\ At(mutations.size_modifier, i + 1) < 0)
             => At(mutations.old_pos, i) - At(mutations.size_modifier, i)
                  < At(mutations.old_pos, i + 1)

IsInsertedByte(m, q) ==
    LET mut == get_mut_(m, q)
    IN  /\ mut < size(m)
        /\ At(m.size_modifier, mut) > 0
        /\ q - At(m.new_pos, mut) < At(m.size_modifier, mut)

---------------------------------------------------------------------------
(* What the last edit, a deletion, did to the log before it *)

pre == prev.mutations
del_first == last.pos
del_last == last.pos + last.size - 1

\* reference positions of the reference bases the last deletion removed
RemovedRefPositions ==
    { ref_pos(pre, q, get_mut_(pre, q)) :
        q \in { v \in del_first..del_last : ~ IsInsertedByte(pre, v) } }

SetMin(S) == CHOOSE x \in S : \A y \in S : x <= y
SetMax(S) == CHOOSE x \in S : \A y \in S : x >= y

\* the reference footprint [foot_lo, foot_hi) of the last deletion
foot_lo == SetMin(RemovedRefPositions)
foot_hi == SetMax(RemovedRefPositions) + 1

\* deletion record d of the earlier log ends where the footprint starts, or
\* starts where it ends
AbutsBefore(d) ==
    At(pre.size_modifier, d) < 0
      /\ At(pre.old_pos, d) - At(pre.size_modifier, d) = foot_lo
AbutsAfter(d) ==
    At(pre.size_modifier, d) < 0 /\ At(pre.old_pos, d) = foot_hi

\* earlier deletion records that lie inside reference range [lo, hi)
DeletionsInside(lo, hi) ==
    { d \in 0..(size(pre) - 1) :
        /\ At(pre.size_modifier, d) < 0
        /\ lo <= At(pre.old_pos, d)
        /\ At(pre.old_pos, d) - At(pre.size_modifier, d) <= hi }

\* sum of size_modifier over the records of the earlier log whose index is in S
RECURSIVE SumOver(_, _)
SumOver(S, i) ==
    IF i >= size(pre) THEN 0
    ELSE (IF i \in S THEN At(pre.size_modifier, i) ELSE 0) + SumOver(S, i + 1)

\* the log holds one deletion record for earlier record d and the footprint:
\* it spans both, its size_modifier is the sum of the footprint and of the
\* earlier deletion records it spans (d alone, unless the deletion touched
\* more than one) and its old_pos is the smallest; no record was added
OneRecordForBoth(d) ==
    /\ size(mutations) <= size(pre)
    /\ \E e \in 0..(size(mutations) - 1) :
          LET lo  == At(mutations.old_pos, e)
              hi  == At(mutations.old_pos, e) - At(mutations.size_modifier, e)
              grp == DeletionsInside(lo, hi)
          IN  /\ At(mutations.size_modifier, e) < 0
              /\ d \in grp
              /\ lo <= foot_lo /\ foot_hi <= hi
              /\ At(mutations.size_modifier, e)
                   = SumOver(grp, 0) - Cardinality(RemovedRefPositions)
              /\ lo = Min(foot_lo, SetMin({ At(pre.old_pos, g) : g \in grp }))

\* an insertion record is still anchored at reference position r
InsertionAnchoredAt(r) ==
    \E i \in 0..(size(mutations) - 1) :
        At(mutations.size_modifier, i) > 0 /\ At(mutations.old_pos, i) = r

CoveredBytes(i) ==
    LET np == At(pre.new_pos, i)
        n  == Min(np + len_in_variant(At(pre.size_modifier, i)) - 1, del_last)
                - Max(np, del_first) + 1
    IN  IF n > 0 THEN n ELSE 0

(* C10.  After add_deletion over variant range [p, p+k): an insertion      *)
(* record wholly inside the range is no longer in the log; one partly      *)
(* inside is still there, its bytes and size_modifier reduced by exactly   *)
(* its bytes inside the range; a substitution inside is no longer there.   *)
DeletionBlowsUpCoveredRecords ==
    last.op = "del" =>
        \A i \in 0..(size(pre) - 1) :
            LET sm  == At(pre.size_modifier, i)
                op  == At(pre.old_pos, i)
                n   == CoveredBytes(i)
                off == Max(At(pre.new_pos, i), del_first) - At(pre.new_pos, i)
            IN  /\ (sm > 0 /\ n = sm) =>
                      ~ \E j \in 0..(size(mutations) - 1) :
                            At(mutations.size_modifier, j) > 0
                              /\ At(mutations.old_pos, j) = op
                /\ (sm > 0 /\ 0 < n /\ n < sm) =>
                      \E j \in 0..(size(mutations) - 1) :
                          /\ At(mutations.old_pos, j) = op
                          /\ At(mutations.size_modifier, j) = sm - n
                          /\ nucleos_at(mutations, j)
                               = Splice(nucleos_at(pre, i), off, n, <<>>)
                /\ (sm = 0 /\ n = 1) =>
                      ~ \E j \in 0..(size(mutations) - 1) :
                            At(mutations.size_modifier, j) = 0
                              /\ At(mutations.old_pos, j) = op

\* one deletion has removed an insertion whole and cut bytes off another
C10Witness ==
    /\ last.op = "del"
    /\ \E i, j \in 0..(size(pre) - 1) :
          /\ At(pre.size_modifier, i) > 0
          /\ CoveredBytes(i) = At(pre.size_modifier, i)
          /\ At(pre.size_modifier, j) > 0
          /\ 0 < CoveredBytes(j) /\ CoveredBytes(j) < At(pre.size_modifier, j)
    /\ DeletionBlowsUpCoveredRecords

---------------------------------------------------------------------------
SignedLength ==
    IF last.op = "ins" THEN last.size
    ELSE IF last.op = "del" THEN 0 - last.size ELSE 0

---------------------------------------------------------------------------
(* C13.  For start <= end and non-negative weights, the index              *)
(* weighted_reservoir_ returns lies in [start, end], and so does every     *)
(* index at which it reads rates[] during the run.                         *)
ReservoirStaysInRange ==
    wr.pc # "idle" =>
        /\ wr.reads \subseteq wr.start..wr.end
        /\ wr.pc \in {"return", "done"} =>
              wr.start <= wr.largest_pos /\ wr.largest_pos <= wr.end

\* a run over the inner part of a vector that has read the whole range and
\* returns its last index
C13Witness ==
    /\ wr.pc = "done"
    /\ wr.start > 0 /\ wr.end > wr.start /\ wr.end < Len(wr.rates) - 1
    /\ wr.reads = wr.start..wr.end
    /\ wr.largest_pos = wr.end
    /\ ReservoirStaysInRange

---------------------------------------------------------------------------
(* C14.  For fixed seed vectors, worker count and inputs the sequences     *)
(* create_sequences_ returns are the same in every execution: however the  *)
(* steps of the workers interleave, the output is what the workers         *)
(* produce when each runs alone.                                           *)
SameOutputInEveryExecution ==
    cs.pc \in {"sum", "done"} =>
        cs.seqs_out = team_seqs_(cs.in, cs.seeds, cs.n_threads, cs.n_threads - 1)

\* two workers have each written sequences of their own
C14Witness ==
    /\ cs.pc = "done" /\ cs.n_threads = 2 /\ cs.in.n_seqs = 3
    /\ cs.in.len_sd > 0
    /\ cs.seeds[0] # cs.seeds[1]
    /\ \E i \in 1..2 : cs.seqs_out[i] # cs.seqs_out[i + 1]
    /\ SameOutputInEveryExecution

(* C15.  With n_cores >= 1 workers, every worker seeds its engine from the *)
(* seed vector at its own thread number, which is below the number of seed *)
(* vectors, no two workers use the same seed vector, and every output      *)
(* index 0..n_seqs-1 is written by exactly one worker.                     *)
WorkersShareNothing ==
    cs.pc # "idle" =>
        /\ \A a \in DOMAIN cs.seeded :
              /\ cs.seeded[a].seeds = cs.seeded[a].thread
              /\ cs.seeded[a].seeds \in DOMAIN cs.seeds
              /\ \A b \in DOMAIN cs.seeded :
                    a # b => cs.seeded[a].seeds # cs.seeded[b].seeds
        /\ \A i \in DOMAIN cs.writers : Len(cs.writers[i]) <= 1
        /\ cs.pc # "parallel" =>
              \A i \in 1..cs.in.n_seqs : Len(cs.writers[i]) = 1

\* two workers, each seeded and each with sequences written
C15Witness ==
    /\ cs.pc = "done" /\ cs.n_threads = 2 /\ cs.in.n_seqs = 3
    /\ Len(cs.seeded) = 2
    /\ \E i, k \in 1..3 : cs.writers[i] = <<0>> /\ cs.writers[k] = <<1>>
    /\ WorkersShareNothing

(* C16, as stated.  create_genome and rando_seqs never return an empty     *)
(* sequence, whatever n_seqs, len_mean and len_sd are.                     *)
NoEmptySequence ==
    cs.pc = "done" => \A i \in 1..cs.in.n_seqs : Len(cs.seqs_out[i]) >= 1

(* C17, as stated.  With len_sd <= 0 every sequence has length len_mean    *)
(* and no gamma draw is taken.                                             *)
FixedLengthIsLenMean ==
    (cs.pc = "done" /\ cs.in.len_sd <= 0) =>
        /\ \A i \in 1..cs.in.n_seqs : Half * Len(cs.seqs_out[i]) = cs.in.len_mean
        /\ cs.gamma_draws = 0

(* C17, amended.  With len_sd <= 0 every sequence has the length len_mean  *)
(* converts to as an unsigned integer, its integer part, and no gamma draw *)
(* is taken.                                                               *)
FixedLengthIsLenMeanTruncated ==
    (cs.pc = "done" /\ cs.in.len_sd <= 0) =>
        /\ \A i \in 1..cs.in.n_seqs :
              Len(cs.seqs_out[i]) = to_uint32(cs.in.len_mean)
        /\ cs.gamma_draws = 0

\* two workers, three sequences, a len_mean that is not a whole number
C17Witness ==
    /\ cs.pc = "done" /\ cs.in.len_sd <= 0
    /\ cs.n_threads = 2 /\ cs.in.n_seqs = 3
    /\ cs.in.len_mean % Half # 0 /\ cs.in.len_mean > Half
    /\ FixedLengthIsLenMeanTruncated

\* the sum of the sizes of the first n sequences
RECURSIVE SumSizes(_, _)
SumSizes(seqs, n) == IF n = 0 THEN 0 ELSE SumSizes(seqs, n - 1) + Len(seqs[n])

(* C18.  The RefGenome create_genome returns has total_size equal to the   *)
(* sum of the sizes of its n_seqs sequences, for every n_seqs >= 0.        *)
TotalSizeIsSumOfSizes ==
    (cs.pc = "done" /\ cs.in.genome) =>
        cs.total_size = SumSizes(cs.seqs_out, cs.in.n_seqs)

\* a genome of three sequences that are not all of one length
C18Witness ==
    /\ cs.pc = "done" /\ cs.in.genome /\ cs.in.n_seqs = 3
    /\ \E i, k \in 1..3 : Len(cs.seqs_out[i]) # Len(cs.seqs_out[k])
    /\ cs.total_size > 3
    /\ TotalSizeIsSumOfSizes

---------------------------------------------------------------------------
\* the input the specification calls invalid: psi <= 0, a negative xi or
\* relative rate, relative rates that sum to 0, pi that does not sum to 1
RECURSIVE SumInts(_)
SumInts(v) == IF v = <<>> THEN 0 ELSE v[1] + SumInts(Tail(v))

InvalidInput(in) ==
    \/ in.psi <= 0
    \/ in.xi < 0
    \/ \E j \in DOMAIN in.rel_insertion_rates : in.rel_insertion_rates[j] < 0
    \/ \E j \in DOMAIN in.rel_deletion_rates : in.rel_deletion_rates[j] < 0
    \/ SumInts(in.rel_insertion_rates) = 0
    \/ SumInts(in.rel_deletion_rates) = 0
    \/ SumInts(in.pis) # 4

\* a probability vector: finite, no negative entry, sums to 1
IsProbabilityVector(qc) ==
    /\ \A j \in DOMAIN qc : IsFinite(qc[j]) /\ ~ IsNegative(qc[j])
    /\ accu(qc) = Num(1)

(* C19, as stated.  Constructing the rate model with invalid input ends in *)
(* an InvalidInput error and yields no sampler; no sampler is ever built   *)
(* from probabilities that are negative or not finite.                     *)
InvalidInputIsRejected ==
    ms.pc \in {"built", "filled"} =>
        /\ InvalidInput(ms.in) => ms.out.threw
        /\ ~ ms.out.threw =>
              \A i \in 1..4 : \A j \in DOMAIN ms.out.probs[i] :
                  IsFinite(ms.out.probs[i][j]) /\ ~ IsNegative(ms.out.probs[i][j])

(* C20, as stated.  For valid Q, xi, psi and relative indel rates the      *)
(* event probability vector of every base has length 4 + I + D, no         *)
(* negative entry, and sums to 1.                                          *)
EventProbsAreProbabilities ==
    (ms.pc \in {"built", "filled"} /\ ~ InvalidInput(ms.in)) =>
        \A i \in 1..4 :
            /\ Len(ms.out.probs[i]) = 4 + Len(ms.in.rel_insertion_rates)
                                        + Len(ms.in.rel_deletion_rates)
            /\ IsProbabilityVector(ms.out.probs[i])

---------------------------------------------------------------------------
(* C21.  For valid input the event probability vector of each base b has  *)
(* weight exactly 0 in the substitution slot of b, and a substitution      *)
(* sampled for the base at a site carries a base different from it.        *)
NoSelfSubstitution ==
    /\ (ms.pc \in {"built", "filled", "sampled"} /\ ~ InvalidInput(ms.in)) =>
           \A c \in 1..4 : ms.out.probs[c][c] = Num(0)
    /\ (ms.pc = "sampled" /\ ~ InvalidInput(ms.in) /\ ms.slot <= 4) =>
           ms.nucleo # ms.c

\* a substitution sampled from the vectors the constructor built, for a
\* rate matrix whose rates depend on the new base
C21Witness ==
    /\ ms.pc = "sampled" /\ ms.by = "built" /\ ~ InvalidInput(ms.in)
    /\ ms.in.Q[1][2] # ms.in.Q[2][1]
    /\ ms.slot <= 4 /\ ms.nucleo # ms.c /\ ms.length = 0
    /\ ms.out.probs[ms.c][ms.c] = Num(0)

---------------------------------------------------------------------------
\* the event a slot of an event probability vector stands for, as a signed
\* length: 0 for the four substitution slots, +k for the k-th insertion
\* slot, -k for the k-th deletion slot
SlotLength(slot, n_ins) ==
    IF slot <= 4 THEN 0 ELSE IF slot <= 4 + n_ins THEN slot - 4 ELSE 0 - (slot - 4 - n_ins)

(* C27.  event_lengths has 4 + I + D entries, as every base's event        *)
(* probability vector has; entries 0..3 are 0, entry 4 + (k-1) is +k and   *)
(* entry 4 + I + (k-1) is -k; the weight in an insertion or deletion slot  *)
(* is 0 exactly when that length has relative rate 0 (for valid input with  *)
(* xi > 0), and a sampled slot gives the length of its slot.                *)
EventLengthsAligned ==
    (ms.pc \in {"built", "filled", "sampled"} /\ ~ ms.out.threw) =>
        LET I  == Len(ms.in.rel_insertion_rates)
            D  == Len(ms.in.rel_deletion_rates)
            el == ms.out.event_lengths
        IN  /\ Len(el) = 4 + I + D
            /\ \A c \in 1..4 : Len(ms.out.probs[c]) = Len(el)
            /\ \A j \in 1..4 : el[j] = 0
            /\ \A k \in 1..I : el[4 + k] = k
            /\ \A k \in 1..D : el[4 + I + k] = 0 - k
            /\ (~ InvalidInput(ms.in) /\ ms.in.xi > 0) =>
                  \A c \in 1..4 :
                     /\ \A k \in 1..I : (ms.in.rel_insertion_rates[k] = 0)
                                             = (ms.out.probs[c][4 + k] = Num(0))
                     /\ \A k \in 1..D : (ms.in.rel_deletion_rates[k] = 0)
                                             = (ms.out.probs[c][4 + I + k] = Num(0))
            /\ ms.pc = "sampled" => ms.length = SlotLength(ms.slot, I)

\* a deletion of two bases sampled where one insertion length and two
\* deletion lengths are offered
C27Witness ==
    /\ ms.pc = "sampled" /\ ~ InvalidInput(ms.in)
    /\ Len(ms.in.rel_insertion_rates) = 1 /\ Len(ms.in.rel_deletion_rates) = 2
    /\ ms.slot = 7 /\ ms.length = 0 - 2
    /\ ms.out.event_lengths = <<0, 0, 0, 0, 1, 0 - 1, 0 - 2>>

---------------------------------------------------------------------------
(* C24, as stated.  weighted_reservoir_ returns for every start <= end and *)
(* every vector of non-negative weights, a weight of 0 at `start`          *)
(* included, when the draws are not forever confined to redrawing values.  *)
ReservoirTerminates == <>(wr.pc = "done")

(* C25.  When some index of [start, end] has a positive weight, the index  *)
(* weighted_reservoir_ returns has a positive weight; every index adopted  *)
(* during the run has one too.                                             *)
ReservoirReturnsPositiveWeight ==
    /\ (wr.pc \in {"return", "done"}
          /\ \E i \in wr.start..wr.end : rate_at(wr.rates, i) > 0) =>
             rate_at(wr.rates, wr.largest_pos) > 0
    /\ (wr.pc \in {"loop", "return", "done"} /\ wr.largest_pos # wr.start) =>
             rate_at(wr.rates, wr.largest_pos) > 0

\* an index is returned that was adopted after passing an index of weight 0
\* and before an index of weight 0
C25Witness ==
    /\ wr.pc = "done"
    /\ wr.largest_pos > wr.start + 1 /\ wr.largest_pos < wr.end
    /\ rate_at(wr.rates, wr.largest_pos - 1) = 0
    /\ rate_at(wr.rates, wr.end) = 0
    /\ rate_at(wr.rates, wr.largest_pos) > 0

---------------------------------------------------------------------------
(* C26, as stated.  For every non-empty S and every chunk_size (0, 1,      *)
(* below, at and above S.size()) event_location returns a position p with  *)
(* 0 <= p < S.size(); when chunk_size < S.size() the window [start, end]   *)
(* has exactly chunk_size positions inside [0, S.size() - 1], and start    *)
(* and end are computed without unsigned wrap-around.                      *)
EventLocationInRange ==
    "S_size" \in DOMAIN wr =>
        /\ wr.pc \notin {"undefined", "crashed"}
        /\ wr.pc = "returned" => (0 <= wr.out /\ wr.out < wr.S_size)
        /\ (wr.pc \in {"call", "loop", "return", "done"}
               /\ wr.chunk_size < wr.S_size) =>
              /\ ~ wr.wrapped
              /\ wr.end - wr.start + 1 = wr.chunk_size
              /\ 0 <= wr.start /\ wr.end <= wr.S_size - 1

---------------------------------------------------------------------------
\* variant positions of the last deletion that held bytes of insertion
\* records, and those that held reference bases (substituted or not)
DeletedInsertedBytes == { v \in del_first..del_last : IsInsertedByte(pre, v) }
DeletedRefBases == { v \in del_first..del_last : ~ IsInsertedByte(pre, v) }

\* indices of the deletion records of log m, and the sum of their
\* size_modifiers
DeletionRecords(m) == { j \in 0..(size(m) - 1) : At(m.size_modifier, j) < 0 }

RECURSIVE SumDeletions(_, _)
SumDeletions(m, j) ==
    IF j >= size(m) THEN 0
    ELSE (IF At(m.size_modifier, j) < 0 THEN At(m.size_modifier, j) ELSE 0)
           + SumDeletions(m, j + 1)

\* the log holds a deletion record at new_pos p with size_modifier sm and
\* no inserted bytes
DeletionRecordedAt(p, sm) ==
    \E j \in DeletionRecords(mutations) :
        /\ At(mutations.size_modifier, j) = sm
        /\ At(mutations.new_pos, j) = p
        /\ nucleos_at(mutations, j) = nullptr

(* C22, as stated.  When add_deletion of length k at p covers inserted     *)
(* bytes, the deletion recorded has size_modifier minus the number of      *)
(* reference bases removed, new_pos p and no inserted bytes; when that     *)
(* number is 0 no deletion record is added; chrom_size decreases by k.     *)
DeletionRecordsResidual ==
    (last.op = "del" /\ DeletedInsertedBytes # {}) =>
        /\ DeletedRefBases # {} =>
              DeletionRecordedAt(del_first, 0 - Cardinality(DeletedRefBases))
        /\ DeletedRefBases = {} =>
              Cardinality(DeletionRecords(mutations)) = Cardinality(DeletionRecords(pre))
        /\ chrom_size = prev.chrom_size - last.size

(* C22, amended.  The same, with the deletion records the new deletion is *)
(* contiguous with counted in: the record at new_pos p has size_modifier    *)
(* minus the number of reference bases removed plus the size_modifiers of   *)
(* the earlier deletion records it takes over; when no reference base is    *)
(* removed no deletion record is added (records left contiguous by the      *)
(* removal merge) and the deletion records sum to the same.                 *)
DeletionRecordsResidualAndMerged ==
    (last.op = "del" /\ DeletedInsertedBytes # {}) =>
        /\ DeletedRefBases # {} =>
              \E j \in DeletionRecords(mutations) :
                 LET sm == At(mutations.size_modifier, j)
                     op == At(mutations.old_pos, j)
                 IN  /\ At(mutations.new_pos, j) = del_first
                     /\ nucleos_at(mutations, j) = nullptr
                     /\ sm = SumOver(DeletionsInside(op, op - sm), 0)
                               - Cardinality(DeletedRefBases)
        /\ DeletedRefBases = {} =>
              /\ Cardinality(DeletionRecords(mutations))
                    <= Cardinality(DeletionRecords(pre))
              /\ SumDeletions(mutations, 0) = SumDeletions(pre, 0)
        /\ chrom_size = prev.chrom_size - last.size

\* a deletion over an inserted byte and a reference base, next to an
\* earlier deletion record: one record stands for both deletions
C22Witness ==
    /\ last.op = "del"
    /\ DeletedInsertedBytes # {} /\ DeletedRefBases # {}
    /\ DeletionRecords(pre) # {}
    /\ \E j \in DeletionRecords(mutations) :
          /\ At(mutations.new_pos, j) = del_first
          /\ At(mutations.size_modifier, j) < 0 - Cardinality(DeletedRefBases)
    /\ DeletionRecordsResidualAndMerged

---------------------------------------------------------------------------
\* variant position q is the site of a substitution record of log m
IsSubstitutedSite(m, q) ==
    LET mut == get_mut_(m, q)
    IN  /\ mut < size(m)
        /\ At(m.size_modifier, mut) = 0
        /\ At(m.new_pos, mut) = q

(* C23.  add_substitution at a position that holds a byte of an insertion  *)
(* record or is the site of a substitution record changes that one byte of *)
(* that record and nothing else: the records stay as many, with the same   *)
(* size_modifier, old_pos and new_pos, and chrom_size stays.  At a         *)
(* position that holds a reference base one record is added, with          *)
(* size_modifier 0 and the one byte.                                       *)
SubstitutionInPlace ==
    last.op = "sub" =>
        LET q   == last.pos
            mut == get_mut_(pre, q)
        IN  /\ chrom_size = prev.chrom_size
            /\ (IsInsertedByte(pre, q) \/ IsSubstitutedSite(pre, q)) =>
                  /\ mutations.size_modifier = pre.size_modifier
                  /\ mutations.old_pos = pre.old_pos
                  /\ mutations.new_pos = pre.new_pos
                  /\ Len(mutations.nucleos) = Len(pre.nucleos)
                  /\ \A j \in 0..(size(pre) - 1) :
                        nucleos_at(mutations, j) =
                           IF j = mut
                           THEN Splice(nucleos_at(pre, j), q - At(pre.new_pos, j),
                                       1, last.nts)
                           ELSE nucleos_at(pre, j)
            /\ ~ (IsInsertedByte(pre, q) \/ IsSubstitutedSite(pre, q)) =>
                  /\ size(mutations) = size(pre) + 1
                  /\ \E j \in 0..(size(mutations) - 1) :
                        /\ At(mutations.size_modifier, j) = 0
                        /\ At(mutations.new_pos, j) = q
                        /\ nucleos_at(mutations, j) = last.nts
                        /\ erase(mutations, j) = pre

\* the second byte of an insertion is substituted by another base
C23Witness ==
    /\ last.op = "sub"
    /\ IsInsertedByte(pre, last.pos) /\ IsInsertedByte(pre, last.pos - 1)
    /\ last.pos - At(pre.new_pos, get_mut_(pre, last.pos)) = 1
    /\ mutations # pre
    /\ size(mutations) = size(pre)
    /\ SubstitutionInPlace


(* C28: copying a mutation log duplicates its inserted bytes: after copy   *)
(* construction or assignment a = b, for every a and b (a and b the same   *)
(* object included), a holds the records b held before the operation with  *)
(* the same size_modifier, old_pos, new_pos and inserted bytes; no buffer  *)
(* is shared, so an insert, erase or byte change on one log leaves the     *)
(* other unchanged.                                                        *)
CopyDuplicatesBytes ==
    logs.pc = "run" =>
        /\ logs.last.op \in {"copy", "assign"} =>
               Content(logs, logs.last.x) = logs.before[logs.last.y]
        /\ \A x \in Objects, y \in Objects :
               (x # y /\ logs.obj[x].alive /\ logs.obj[y].alive) =>
                   \A i \in DOMAIN logs.obj[x].nucleos, j \in DOMAIN logs.obj[y].nucleos :
                       logs.obj[x].nucleos[i] # NullPointer =>
                           logs.obj[x].nucleos[i] # logs.obj[y].nucleos[j]
        /\ logs.last.op \in {"push_front", "push_back", "insert", "erase",
                             "erase_range", "set_byte"} =>
               \A z \in Objects \ {logs.last.x} : Content(logs, z) = logs.before[z]

(* C29: over any sequence of AllMutations operations every inserted-bytes  *)
(* buffer is freed exactly once: no buffer is freed twice, no buffer is    *)
(* left allocated but unreachable from the records of a log (in particular *)
(* after clear), and no record still in a log points to a freed buffer.    *)
BuffersFreedExactlyOnce ==
    logs.pc = "run" =>
        /\ ~logs.double_free
        /\ \A p \in DOMAIN logs.heap :
               logs.heap[p].state = "live" =>
                   \E x \in Objects :
                       /\ logs.obj[x].alive
                       /\ \E j \in DOMAIN logs.obj[x].nucleos : logs.obj[x].nucleos[j] = p
        /\ \A x \in Objects :
               logs.obj[x].alive =>
                   \A j \in DOMAIN logs.obj[x].nucleos :
                       logs.obj[x].nucleos[j] # NullPointer =>
                           logs.heap[logs.obj[x].nucleos[j]].state = "live"

====
